---- MODULE Spec2Model ----
(***************************************************************************)
(* A model of dnsge/shapes, a software 3D renderer: the linear algebra     *)
(* kernel (matrix.rs, world/geo.rs), the camera (world/camera.rs), the     *)
(* z-buffered rasterizer (screen_buffer.rs), the visibility stage          *)
(* (render.rs) and the frame scheduler (scene.rs).                         *)
(*                                                                         *)
(* Numbers.  An f32 is modelled by the exact rational it stands for: a     *)
(* pair <<n, d>> in lowest terms with d > 0.  The non-finite values a      *)
(* division by zero produces have d = 0: <<1, 0>> is +inf, <<-1, 0>> is    *)
(* -inf and <<0, 0>> is NaN.  Rounding is not modelled.                    *)
(***************************************************************************)
EXTENDS Integers, Sequences, FiniteSets, TLC

VARIABLES
    \* Camera (world/camera.rs)
    position, rotation, view_matrix, focal_matrix, combined_matrix, modified,
    \* history of the camera: the last method called, and whether update() was
    \* called since the flag was last read (or since construction)
    last_call, updated_since_read,
    \* Scene (scene.rs) and the position of main.rs / Scene::run
    pc, last_state, new_state, camera_changed, rendered, presented,
    \* the mesh (world/three_dim.rs), which main() builds and the scene owns
    object,
    \* main.rs: the frame rate asked for, the window of the scene, the rate
    \* limit set on it, and the still image written
    fps, window, update_rate, exported,
    \* ScreenBuffer (screen_buffer.rs)
    buffer, z_buffer, cleared, drawn,
    \* the operand and the result of the last kernel operation applied
    operand, op, result

cameraVars ==
    <<position, rotation, view_matrix, focal_matrix, combined_matrix, modified,
      last_call, updated_since_read>>
mainVars == <<fps, window, update_rate, exported>>
sceneVars ==
    <<pc, last_state, new_state, camera_changed, rendered, presented, object, mainVars>>
screenVars == <<buffer, z_buffer, cleared, drawn>>
kernelVars == <<operand, op, result>>
vars == <<cameraVars, sceneVars, screenVars, kernelVars>>

----------------------------------------------------------------------------
(* f32 arithmetic, exact *)

AbsInt(n) == IF n < 0 THEN -n ELSE n

SignInt(n) == IF n < 0 THEN -1 ELSE IF n > 0 THEN 1 ELSE 0

RECURSIVE Gcd(_, _)
Gcd(a, b) == IF b = 0 THEN a ELSE Gcd(b, a % b)

\* The f32 standing for n/d; d = 0 gives +inf, -inf or NaN by the sign of n.
Q(n, d) ==
    IF d = 0 THEN <<SignInt(n), 0>>
    ELSE LET g == Gcd(AbsInt(n), AbsInt(d))
             s == IF d < 0 THEN -1 ELSE 1
         IN  <<(s * n) \div g, (s * d) \div g>>

F(k) == <<k, 1>>

NaN == <<0, 0>>

IsFinite(a) == a[2] # 0

IsNaN(a) == a = NaN

FAdd(a, b) ==
    IF IsFinite(a) /\ IsFinite(b) THEN Q(a[1] * b[2] + b[1] * a[2], a[2] * b[2])
    ELSE IF IsNaN(a) \/ IsNaN(b) THEN NaN
    ELSE IF IsFinite(a) THEN b
    ELSE IF IsFinite(b) THEN a
    ELSE IF a = b THEN a ELSE NaN

FNeg(a) == <<-a[1], a[2]>>

FSub(a, b) == FAdd(a, FNeg(b))

\* inf * 0 is NaN: the numerator of the product is 0 and its denominator 0.
FMul(a, b) == Q(a[1] * b[1], a[2] * b[2])

\* f32::recip: 1/0 is +inf, 1/inf is 0.
FRecip(a) ==
    IF IsNaN(a) THEN NaN
    ELSE IF ~IsFinite(a) THEN F(0)
    ELSE IF a[1] = 0 THEN <<1, 0>>
    ELSE Q(a[2], a[1])

FDiv(a, b) ==
    IF ~IsFinite(a) /\ ~IsFinite(b) THEN NaN
    ELSE IF IsFinite(a) /\ IsFinite(b) /\ a[1] = 0 /\ b[1] = 0 THEN NaN
    ELSE FMul(a, FRecip(b))

FAbs(a) == <<AbsInt(a[1]), a[2]>>

\* a < b; every comparison with NaN is false.
FLt(a, b) ==
    IF IsNaN(a) \/ IsNaN(b) THEN FALSE
    ELSE IF IsFinite(a) /\ IsFinite(b) THEN a[1] * b[2] < b[1] * a[2]
    ELSE IF IsFinite(a) THEN b[1] > 0
    ELSE IF IsFinite(b) THEN a[1] < 0
    ELSE a[1] < b[1]

\* a == b of f32: NaN equals nothing, itself included.
FEq(a, b) == ~IsNaN(a) /\ ~IsNaN(b) /\ a = b

FLe(a, b) == FLt(a, b) \/ FEq(a, b)

FMin(a, b) == IF IsNaN(a) THEN b ELSE IF IsNaN(b) THEN a ELSE IF FLt(b, a) THEN b ELSE a

FMax(a, b) == IF IsNaN(a) THEN b ELSE IF IsNaN(b) THEN a ELSE IF FLt(a, b) THEN b ELSE a

----------------------------------------------------------------------------
(* Matrix<A, B> (matrix.rs): data[y][x], rows y = 1..A, columns x = 1..B *)

Rows(M) == Len(M)

Cols(M) == Len(M[1])

\* Matrix::default
ZeroMatrix(a, b) == [y \in 1..a |-> [x \in 1..b |-> F(0)]]

\* vector_dot: the sum is accumulated from 0.0, left to right
RECURSIVE DotUpTo(_, _, _)
DotUpTo(lh, rh, n) ==
    IF n = 0 THEN F(0) ELSE FAdd(DotUpTo(lh, rh, n - 1), FMul(lh[n], rh[n]))

vector_dot(lh, rh) == DotUpTo(lh, rh, Len(lh))

row(M, y) == M[y]

col(M, x) == [i \in 1..Rows(M) |-> M[i][x]]

\* res[(y, x)] = row[x] writes res.data[x][y]
transpose(M) == [x \in 1..Cols(M) |-> [y \in 1..Rows(M) |-> M[y][x]]]

\* res[(x, y)] = self.data[y][x] * by
scalar(M, by) == [y \in 1..Rows(M) |-> [x \in 1..Cols(M) |-> FMul(M[y][x], by)]]

\* Mul<Matrix<B, C>> for Matrix<A, B>: res[(x, y)] = row y of self . column x of rhs
Mul(L, R) == [y \in 1..Rows(L) |-> [x \in 1..Cols(R) |-> vector_dot(row(L, y), col(R, x))]]

Identity(n) == [y \in 1..n |-> [x \in 1..n |-> IF x = y THEN F(1) ELSE F(0)]]

\* minor_matrix(remove_x, remove_y): column remove_x and row remove_y dropped
minor_matrix(M, remove_x, remove_y) ==
    LET n == Rows(M)
        src(i, removed) == IF i < removed THEN i ELSE i + 1
    IN  [y \in 1..(n - 1) |-> [x \in 1..(n - 1) |-> M[src(y, remove_y)][src(x, remove_x)]]]

determinant2(M) == FSub(FMul(M[1][1], M[2][2]), FMul(M[1][2], M[2][1]))

\* a slip in the middle minor: data[1][1] read where data[1][0] is meant
determinant3_WrongMinor(M) ==
    LET a == FSub(FMul(M[2][2], M[3][3]), FMul(M[2][3], M[3][2]))
        b == FSub(FMul(M[2][2], M[3][3]), FMul(M[2][3], M[3][1]))
        c == FSub(FMul(M[2][1], M[3][2]), FMul(M[2][2], M[3][1]))
    IN  FAdd(FSub(FMul(M[1][1], a), FMul(M[1][2], b)), FMul(M[1][3], c))

determinant3(M) ==
    LET a == FSub(FMul(M[2][2], M[3][3]), FMul(M[2][3], M[3][2]))
        b == FSub(FMul(M[2][1], M[3][3]), FMul(M[2][3], M[3][1]))
        c == FSub(FMul(M[2][1], M[3][2]), FMul(M[2][2], M[3][1]))
    IN  FAdd(FSub(FMul(M[1][1], a), FMul(M[1][2], b)), FMul(M[1][3], c))

determinant4(M) ==
    LET a == determinant3(minor_matrix(M, 1, 1))
        b == determinant3(minor_matrix(M, 2, 1))
        c == determinant3(minor_matrix(M, 3, 1))
        d == determinant3(minor_matrix(M, 4, 1))
    IN  FSub(FAdd(FSub(FMul(M[1][1], a), FMul(M[1][2], b)), FMul(M[1][3], c)),
             FMul(M[1][4], d))

\* Matrix<3,3>::matrix_of_minors and Matrix<4,4>::matrix_of_minors
matrix_of_minors(M) ==
    [y \in 1..Rows(M) |-> [x \in 1..Rows(M) |->
        IF Rows(M) = 3 THEN determinant2(minor_matrix(M, x, y))
        ELSE determinant3(minor_matrix(M, x, y))]]

\* x % 2 == 0 adds, otherwise subtracts; x is 0-based in the source
RECURSIVE MinorSumUpTo(_, _, _)
MinorSumUpTo(M, minors, n) ==
    IF n = 0 THEN F(0)
    ELSE IF (n - 1) % 2 = 0
         THEN FAdd(MinorSumUpTo(M, minors, n - 1), FMul(M[1][n], minors[1][n]))
         ELSE FSub(MinorSumUpTo(M, minors, n - 1), FMul(M[1][n], minors[1][n]))

determinant_from_minors(M, minors) == MinorSumUpTo(M, minors, Rows(M))

\* the checkerboard of signs left out: the minors are returned as they are
apply_alternating_signs_Unsigned(M) ==
    [y \in 1..Rows(M) |-> [x \in 1..Cols(M) |-> M[y][x]]]

\* multiplier 1.0 where (xi % 2 + yi % 2) % 2 == 0, else -1.0 (0-based xi, yi)
apply_alternating_signs(M) ==
    [y \in 1..Rows(M) |-> [x \in 1..Cols(M) |->
        FMul(M[y][x], IF (((x - 1) % 2) + ((y - 1) % 2)) % 2 = 0 THEN F(1) ELSE F(-1))]]

\* Matrix<3,3>::inverse and Matrix<4,4>::inverse
inverse(M) ==
    LET minors == matrix_of_minors(M)
        adjugate == transpose(apply_alternating_signs(minors))
        det == determinant_from_minors(M, minors)
    IN  scalar(adjugate, FRecip(det))

----------------------------------------------------------------------------
(* Point<D> (world/geo.rs): a sequence of D coordinates *)

Point3Of(x, y, z) == <<F(x), F(y), F(z)>>

sub_point(p, q) == [i \in 1..Len(p) |-> FSub(p[i], q[i])]

add_point(p, q) == [i \in 1..Len(p) |-> FAdd(p[i], q[i])]

scale(p, by) == [i \in 1..Len(p) |-> FMul(p[i], by)]

RECURSIVE PointDotUpTo(_, _, _)
PointDotUpTo(p, q, n) ==
    IF n = 0 THEN F(0) ELSE FAdd(PointDotUpTo(p, q, n - 1), FMul(p[n], q[n]))

dot(p, q) == PointDotUpTo(p, q, Len(p))

\* f32::sqrt on the squares the model's inputs produce: a rational whose
\* numerator and denominator are perfect squares (HasExactSqrt); sqrt(inf) = inf.
IsSquare(n) == \E k \in 0..n : k * k = n

IntSqrt(n) == CHOOSE k \in 0..n : k * k = n

HasExactSqrt(a) == ~IsFinite(a) \/ (a[1] >= 0 /\ IsSquare(a[1]) /\ IsSquare(a[2]))

FSqrt(a) ==
    IF ~IsFinite(a) THEN (IF a[1] > 0 THEN a ELSE NaN)
    ELSE Q(IntSqrt(a[1]), IntSqrt(a[2]))

RECURSIVE SquaresUpTo(_, _)
SquaresUpTo(p, n) ==
    IF n = 0 THEN F(0) ELSE FAdd(SquaresUpTo(p, n - 1), FMul(p[n], p[n]))

magnitude(p) == FSqrt(SquaresUpTo(p, Len(p)))

\* self.scale(self.magnitude().recip()): the zero vector becomes NaNs
normalize(p) == scale(p, FRecip(magnitude(p)))

to_matrix(p) == [y \in 1..Len(p) |-> <<p[y]>>]

tall_to_point(M) == col(M, 1)

\* Mul<Point<B>> for Matrix<A, B>
MulPoint(M, p) == tall_to_point(Mul(M, to_matrix(p)))

euc_to_hom(p) == <<p[1], p[2], p[3], F(1)>>

Panic == [t |-> "panic", v |-> <<>>]

PointResult(p) == [t |-> "point", v |-> p]

\* The assertion `assert_ne!(w, 0.0)` of both conversions: -0.0 and 0.0 are the
\* same rational, and NaN != 0.0 passes.
HomAssertion(w) == ~FEq(w, F(0))

\* the assertion left out: a point at infinity is divided through
hom_to_euc_Unchecked(p) ==
    LET n == Len(p)
        w == p[n]
    IN  IF FEq(w, F(1)) THEN PointResult([i \in 1..(n - 1) |-> p[i]])
        ELSE PointResult([i \in 1..(n - 1) |-> FDiv(p[i], w)])

\* Point4::hom_to_euc (4D -> 3D) and Point3::hom_to_euc (3D -> 2D)
hom_to_euc(p) ==
    LET n == Len(p)
        w == p[n]
    IN  IF ~HomAssertion(w) THEN Panic
        ELSE IF FEq(w, F(1)) THEN PointResult([i \in 1..(n - 1) |-> p[i]])
        ELSE PointResult([i \in 1..(n - 1) |-> FDiv(p[i], w)])

cross(p, q) ==
    << FSub(FMul(p[2], q[3]), FMul(p[3], q[2])),
       FNeg(FSub(FMul(p[1], q[3]), FMul(p[3], q[1]))),
       FSub(FMul(p[1], q[2]), FMul(p[2], q[1])) >>

----------------------------------------------------------------------------
(* Visibility stage of Renderer::render for Object (render.rs) *)

\* the camera of this renderer sits at the origin: s[0].sub([0.0, 0.0, 0.0])
CameraOrigin == Point3Of(0, 0, 0)

camera_surface_dot(s) ==
    LET vec1 == sub_point(s[2], s[1])
        vec2 == sub_point(s[3], s[1])
        surface_normal == normalize(cross(vec1, vec2))
    IN  dot(normalize(sub_point(s[1], CameraOrigin)), surface_normal)

\* the boundary case misplaced: a dot product of 0 counted as facing the camera
surface_orientation_Inclusive(s) ==
    IF FLe(camera_surface_dot(s), F(0)) THEN "TowardsCamera" ELSE "AwayFromCamera"

surface_orientation(s) ==
    IF FLt(camera_surface_dot(s), F(0)) THEN "TowardsCamera" ELSE "AwayFromCamera"

\* the Surface built by the map step, and whether the triangle loop goes on to
\* project it (an AwayFromCamera surface is skipped by `continue`)
Surface(s) ==
    [ vertices |-> s,
      camera_surface_dot |-> camera_surface_dot(s),
      orientation |-> surface_orientation(s) ]

SkippedByCull(surface) == surface.orientation = "AwayFromCamera"

\* the near-plane test asks every vertex to be at z >= 1
near_plane_test_AllInside(s) == \A n \in 1..Len(s) : FLe(F(1), s[n][3])

\* the filter closure: some vertex of the transformed face has z >= 1.0
near_plane_test(s) == \E n \in 1..Len(s) : FLe(F(1), s[n][3])

\* (*camera * p.euc_to_hom()).hom_to_euc() for every vertex of the surface; a
\* vertex with z = 0 fails the assertion of hom_to_euc
z_space_points(camera, s) ==
    [n \in 1..Len(s) |-> hom_to_euc(MulPoint(camera, euc_to_hom(s[n])))]

\* What render does with one transformed face: the near-plane filter, the
\* orientation, and for a surface facing the camera the projection.
RenderFace(camera, s) ==
    IF ~near_plane_test(s)
    THEN [stage |-> "filtered", vertices |-> <<>>, projected |-> <<>>]
    ELSE LET surface == Surface(s)
         IN  IF SkippedByCull(surface)
             THEN [stage |-> "culled", vertices |-> surface.vertices, projected |-> <<>>]
             ELSE [stage |-> "projected", vertices |-> surface.vertices,
                   projected |-> z_space_points(camera, surface.vertices)]

----------------------------------------------------------------------------
(* Camera (world/camera.rs) *)

X_AXIS == Point3Of(1, 0, 0)

Y_AXIS == Point3Of(0, 1, 0)

Z_AXIS == Point3Of(0, 0, 1)

\* An angle is a whole number k of quarter turns, standing for k * pi / 2, of
\* which sine and cosine are exact.
sin(k) == << F(0), F(1), F(0), F(-1) >>[(k % 4) + 1]

cos(k) == << F(1), F(0), F(-1), F(0) >>[(k % 4) + 1]

\* world/three_dim.rs
make_rotation_matrix(rx, ry, rz) ==
    << << FMul(cos(rx), cos(ry)),
          FSub(FMul(FMul(cos(rx), sin(ry)), sin(rz)), FMul(sin(rx), cos(rz))),
          FAdd(FMul(FMul(cos(rx), sin(ry)), cos(rz)), FMul(sin(rx), sin(rz))) >>,
       << FMul(sin(rx), cos(ry)),
          FAdd(FMul(FMul(sin(rx), sin(ry)), sin(rz)), FMul(cos(rx), cos(rz))),
          FSub(FMul(FMul(sin(rx), sin(ry)), cos(rz)), FMul(cos(rx), sin(rz))) >>,
       << FNeg(sin(ry)), FMul(cos(ry), sin(rz)), FMul(cos(ry), cos(rz)) >> >>

axes_transformation_matrix(new_x, new_y, new_z, origin) ==
    << << new_x[1], new_y[1], new_z[1], origin[1] >>,
       << new_x[2], new_y[2], new_z[2], origin[2] >>,
       << new_x[3], new_y[3], new_z[3], origin[3] >>,
       << F(0), F(0), F(0), F(1) >> >>

rotation_view_matrix(origin, rot) ==
    LET rot_matrix == make_rotation_matrix(rot[1], rot[2], rot[3])
        new_x == MulPoint(rot_matrix, X_AXIS)
        new_y == MulPoint(rot_matrix, Y_AXIS)
        new_z == MulPoint(rot_matrix, Z_AXIS)
    IN  inverse(axes_transformation_matrix(new_x, new_y, new_z, origin))

point_to_view_matrix(origin, target, up) ==
    LET z_axis == normalize(sub_point(target, origin))
        x_axis == normalize(cross(up, z_axis))
        y_axis == normalize(cross(z_axis, x_axis))
    IN  inverse(axes_transformation_matrix(x_axis, y_axis, z_axis, origin))

make_focal_matrix(cam_x, cam_y, aspect_ratio) ==
    << << FRecip(aspect_ratio), F(0), F(0), FNeg(cam_x) >>,
       << F(0), F(1), F(0), FNeg(cam_y) >>,
       << F(0), F(0), F(1), F(0) >> >>

\* Camera::new
Camera_new(pos, aspect_ratio) ==
    LET view == rotation_view_matrix(pos, <<0, 0, 0>>)
        focal == make_focal_matrix(F(0), F(0), aspect_ratio)
    IN  [ position |-> pos,
          rotation |-> <<0, 0, 0>>,
          view_matrix |-> view,
          focal_matrix |-> focal,
          combined_matrix |-> Mul(focal, view),
          modified |-> FALSE ]

move_to_Flagging(cam, point) == [cam EXCEPT !.position = point, !.modified = TRUE]

move_to(cam, point) == [cam EXCEPT !.position = point]

set_rotation(cam, rot) == [cam EXCEPT !.rotation = rot]

\* the combined matrix is brought up to date as well
point_to_Combining(cam, point) ==
    LET view == point_to_view_matrix(cam.position, point, Y_AXIS)
    IN  [cam EXCEPT !.view_matrix = view,
                    !.combined_matrix = Mul(cam.focal_matrix, view)]

point_to(cam, point) ==
    [cam EXCEPT !.view_matrix = point_to_view_matrix(cam.position, point, Y_AXIS)]

update_StaleView(cam) ==
    [cam EXCEPT !.view_matrix = rotation_view_matrix(cam.position, cam.rotation),
                !.combined_matrix = Mul(cam.focal_matrix, cam.view_matrix),
                !.modified = TRUE]

update(cam) ==
    LET view == rotation_view_matrix(cam.position, cam.rotation)
    IN  [cam EXCEPT !.view_matrix = view,
                    !.combined_matrix = Mul(cam.focal_matrix, view),
                    !.modified = TRUE]

get_and_clear_modified_Keep(cam) ==
    [ camera |-> cam, returned |-> cam.modified ]

\* the camera it leaves and the value it returns
get_and_clear_modified(cam) ==
    IF cam.modified
    THEN [ camera |-> [cam EXCEPT !.modified = FALSE], returned |-> TRUE ]
    ELSE [ camera |-> cam, returned |-> FALSE ]

CurrentCamera ==
    [ position |-> position,
      rotation |-> rotation,
      view_matrix |-> view_matrix,
      focal_matrix |-> focal_matrix,
      combined_matrix |-> combined_matrix,
      modified |-> modified ]

\* the camera is `cam`, as of a call of `method`
CameraIs(cam, method) ==
    /\ position = cam.position
    /\ rotation = cam.rotation
    /\ view_matrix = cam.view_matrix
    /\ focal_matrix = cam.focal_matrix
    /\ combined_matrix = cam.combined_matrix
    /\ modified = cam.modified
    /\ last_call = method

CameraBecomes(cam, method) ==
    \E c \in {cam} :
        /\ position' = c.position
        /\ rotation' = c.rotation
        /\ view_matrix' = c.view_matrix
        /\ focal_matrix' = c.focal_matrix
        /\ combined_matrix' = c.combined_matrix
        /\ modified' = c.modified
        /\ last_call' = method

\* the normalisations of point_to_view_matrix, of which the model computes
\* those with a rational result
PointToComputable(origin, target) ==
    LET d == sub_point(target, origin)
    IN  /\ HasExactSqrt(SquaresUpTo(d, 3))
        /\ LET x == cross(Y_AXIS, normalize(d))
           IN  \/ \E i \in 1..3 : IsNaN(x[i])
               \/ HasExactSqrt(SquaresUpTo(x, 3))

Positions == { Point3Of(0, 0, 0), Point3Of(1, 0, 0) }

Rotations == { <<0, 0, 0>>, <<0, 1, 0>> }

Targets == { Point3Of(1, 0, 0), Point3Of(0, 0, 1) }

AspectRatios == { F(1), F(2) }

\* the places of the program that hold the camera mutably: main() before the
\* scene takes it, the update callback, and a client of the camera alone
\* who may call the camera at will: the update callback of the scene and a
\* client holding a camera of its own
CameraHolders == { "callback", "client" }

\* main.rs: Camera::new, then point_to, then update, then Scene::new
MainCalls(method) ==
    /\ pc = "main"
    /\ \/ method = "point_to" /\ last_call = "new"
       \/ method = "update" /\ last_call = "point_to"
       \/ method = "Scene::new" /\ last_call = "update"

MoveTo(point) ==
    /\ pc \in CameraHolders
    /\ CameraBecomes(move_to(CurrentCamera, point), "move_to")
    /\ UNCHANGED <<updated_since_read, sceneVars, screenVars, kernelVars>>

SetRotation(rot) ==
    /\ pc \in CameraHolders
    /\ CameraBecomes(set_rotation(CurrentCamera, rot), "set_rotation")
    /\ UNCHANGED <<updated_since_read, sceneVars, screenVars, kernelVars>>

\* main() points the camera before the scene takes it; the callback of main.rs
\* moves and turns it only
PointTo(point) ==
    /\ pc = "client" \/ MainCalls("point_to")
    /\ PointToComputable(position, point)
    /\ CameraBecomes(point_to(CurrentCamera, point), "point_to")
    /\ UNCHANGED <<updated_since_read, sceneVars, screenVars, kernelVars>>

Update ==
    /\ pc \in CameraHolders \/ MainCalls("update")
    /\ CameraBecomes(update(CurrentCamera), "update")
    /\ updated_since_read' = TRUE
    /\ UNCHANGED <<sceneVars, screenVars, kernelVars>>

GetAndClearModified ==
    /\ pc = "client"
    /\ \E r \in {get_and_clear_modified(CurrentCamera)} :
           /\ CameraBecomes(r.camera, "get_and_clear_modified")
           /\ camera_changed' = r.returned
    /\ updated_since_read' = FALSE
    /\ UNCHANGED <<pc, last_state, new_state, rendered, presented, screenVars, kernelVars, object, mainVars>>

----------------------------------------------------------------------------
(* ScreenBuffer (screen_buffer.rs): buffer and z_buffer hold width * height
   entries, the pixel (x, y) at index y * width + x (here + 1) *)

Width == 2

Height == 2

\* f32::MAX, scaled down: what the model needs of it is that it is finite and
\* above every depth the inputs produce
F32_MAX == <<1000000, 1>>

\* 1e-6, the threshold of the degenerate-area and weight-sum tests
Epsilon == <<1, 1000000>>

Pixels == { <<x, y>> : x \in 0..(Width - 1), y \in 0..(Height - 1) }

BufferIndex(x, y) == y * Width + x + 1

\* the depths start at the value clear() writes
NewScreenBuffer_Cleared ==
    [ buffer |-> [i \in 1..(Width * Height) |-> 0],
      z_buffer |-> [i \in 1..(Width * Height) |-> F32_MAX] ]

\* ScreenBuffer::new: both vectors zeroed
NewScreenBuffer ==
    [ buffer |-> [i \in 1..(Width * Height) |-> 0],
      z_buffer |-> [i \in 1..(Width * Height) |-> F(0)] ]

\* the depths are left as they were
clear_ColourOnly(sb, color) ==
    [ buffer |-> [i \in 1..Len(sb.buffer) |-> color],
      z_buffer |-> sb.z_buffer ]

\* ScreenBuffer::clear
clear(sb, color) ==
    [ buffer |-> [i \in 1..Len(sb.buffer) |-> color],
      z_buffer |-> [i \in 1..Len(sb.z_buffer) |-> F32_MAX] ]

\* `as i32` of an f32: truncation towards zero, NaN to 0, saturation at the ends
FToI32(a) ==
    IF IsNaN(a) THEN 0
    ELSE IF ~IsFinite(a) THEN a[1] * 2147483647
    ELSE IF a[1] >= 0 THEN a[1] \div a[2]
    ELSE -((-a[1]) \div a[2])

Min3(a, b, c) == FMin(FMin(a, b), c)

Max3(a, b, c) == FMax(FMax(a, b), c)

\* the bounding box as the vertices give it, not clamped
BoundingBox_Unclamped(t) ==
    [ min_x |-> FToI32(Min3(t[1].x, t[2].x, t[3].x)),
      min_y |-> FToI32(Min3(t[1].y, t[2].y, t[3].y)),
      max_x |-> FToI32(Max3(t[1].x, t[2].x, t[3].x)),
      max_y |-> FToI32(Max3(t[1].y, t[2].y, t[3].y)) ]

\* the bounding box of the pixel loop, clamped to the screen
BoundingBox(t) ==
    [ min_x |-> FToI32(FMax(Min3(t[1].x, t[2].x, t[3].x), F(0))),
      min_y |-> FToI32(FMax(Min3(t[1].y, t[2].y, t[3].y), F(0))),
      max_x |-> FToI32(FMin(Max3(t[1].x, t[2].x, t[3].x), F(Width - 1))),
      max_y |-> FToI32(FMin(Max3(t[1].y, t[2].y, t[3].y), F(Height - 1))) ]

TriangleArea(t) ==
    FMul(Q(1, 2),
         FSub(FMul(FSub(t[2].x, t[1].x), FSub(t[3].y, t[1].y)),
              FMul(FSub(t[3].x, t[1].x), FSub(t[2].y, t[1].y))))

\* the edge function (A, B, C) of the edge vi -> vj
EdgeFunction(vi, vj) ==
    << FSub(vi.y, vj.y), FSub(vj.x, vi.x), FSub(FMul(vi.x, vj.y), FMul(vj.x, vi.y)) >>

\* edge_vals at pixel (x, y): the value at the centre of the box's first pixel,
\* stepped by B once per row and by A once per column
EdgeValue(e, box, x, y) ==
    LET start_x == FAdd(F(box.min_x), Q(1, 2))
        start_y == FAdd(F(box.min_y), Q(1, 2))
        first == FAdd(FAdd(FMul(e[1], start_x), FMul(e[2], start_y)), e[3])
    IN  FAdd(FAdd(first, FMul(F(y - box.min_y), e[2])), FMul(F(x - box.min_x), e[1]))

EdgeValues(t, box, x, y) ==
    << EdgeValue(EdgeFunction(t[1], t[2]), box, x, y),
       EdgeValue(EdgeFunction(t[2], t[3]), box, x, y),
       EdgeValue(EdgeFunction(t[3], t[1]), box, x, y) >>

\* inside = edge_vals[0] >= 0.0 && edge_vals[1] >= 0.0 && edge_vals[2] >= 0.0
InsideTest(ev) == FLe(F(0), ev[1]) /\ FLe(F(0), ev[2]) /\ FLe(F(0), ev[3])

\* perspective-correct depth from the (normalised) barycentric weights
InterpolatedZ(t, ev) ==
    LET twice == FMul(F(2), FAbs(TriangleArea(t)))
        w0 == FDiv(FAbs(ev[2]), twice)
        w1 == FDiv(FAbs(ev[3]), twice)
        w2 == FDiv(FAbs(ev[1]), twice)
        sum == FAdd(FAdd(w0, w1), w2)
        norm(w) == IF FLt(Epsilon, sum) THEN FDiv(w, sum) ELSE w
        one_over_z == FAdd(FAdd(FMul(norm(w0), FDiv(F(1), t[1].z)),
                                FMul(norm(w1), FDiv(F(1), t[2].z))),
                           FMul(norm(w2), FDiv(F(1), t[3].z)))
    IN  FDiv(F(1), one_over_z)

ZTest_Inclusive(z_interpolated, stored) == FLe(z_interpolated, stored)

\* the z-buffer test of one pixel
ZTest(z_interpolated, stored) == FLt(z_interpolated, stored)

\* the pixels the two loops go through: y in min_y..=max_y, x in min_x..=max_x
LoopPixels(box) ==
    { <<x, y>> : x \in box.min_x..box.max_x, y \in box.min_y..box.max_y }

\* whether the pixel loop reaches (x, y) and writes it
PixelWritten(sb, t, box, x, y) ==
    /\ box.min_x <= x /\ x <= box.max_x
    /\ box.min_y <= y /\ y <= box.max_y
    /\ LET ev == EdgeValues(t, box, x, y)
       IN  /\ InsideTest(ev)
           /\ ZTest(InterpolatedZ(t, ev), sb.z_buffer[BufferIndex(x, y)])

\* ScreenBuffer::fill_projected_triangle
fill_projected_triangle(sb, t, color) ==
    IF FLt(FAbs(TriangleArea(t)), Epsilon) THEN sb
    ELSE LET box == BoundingBox(t)
             X(i) == (i - 1) % Width
             Y(i) == (i - 1) \div Width
         IN  [ buffer |-> [i \in 1..Len(sb.buffer) |->
                   IF PixelWritten(sb, t, box, X(i), Y(i)) THEN color ELSE sb.buffer[i]],
               z_buffer |-> [i \in 1..Len(sb.z_buffer) |->
                   IF PixelWritten(sb, t, box, X(i), Y(i))
                   THEN InterpolatedZ(t, EdgeValues(t, box, X(i), Y(i)))
                   ELSE sb.z_buffer[i]] ]

----------------------------------------------------------------------------
(* Scene (scene.rs) driven by main (main.rs) *)

MaxState == 1

\* the values of S, compared with ==
States == 0..MaxState

None == <<>>

Some(s) == <<s>>

\* main.rs passes 0xf7ffff
BackgroundColor == 16252927

CurrentScreenBuffer == [buffer |-> buffer, z_buffer |-> z_buffer]

RECURSIVE FillAll(_, _, _)
FillAll(sb, tris, n) ==
    IF n = 0 THEN sb
    ELSE fill_projected_triangle(FillAll(sb, tris, n - 1), tris[n].triangle, tris[n].color)

Vertex(x, y, z) == [x |-> F(x), y |-> F(y), z |-> F(z)]

\* Renderer::render is the object's own: it fills any of these lists
RenderOutputs ==
    { <<>>,
      << [ triangle |-> << Vertex(0, 0, 1), Vertex(Width, 0, 1), Vertex(0, Height, 1) >>,
           color |-> 1 ] >> }

\* draw_frame, and the body of draw_and_export_frame: clear, render, remember
DrawFrame(state, tris) ==
    \E sb \in {FillAll(clear(CurrentScreenBuffer, BackgroundColor), tris, Len(tris))} :
        /\ buffer' = sb.buffer
        /\ z_buffer' = sb.z_buffer
        /\ cleared' = TRUE
        /\ drawn' = tris
        /\ last_state' = Some(state)
        /\ rendered' = TRUE

StateChanged(last, state) == last = None \/ last[1] # state

ShouldDraw_StateOnly(state_changed, cam_changed) == state_changed

ShouldDraw(state_changed, cam_changed) == state_changed \/ cam_changed

\* Scene::new: the camera moves into the scene, the screen is allocated
SceneNew ==
    /\ MainCalls("Scene::new")
    /\ pc' = "scene"
    /\ last_state' = None
    /\ buffer' = NewScreenBuffer.buffer
    /\ z_buffer' = NewScreenBuffer.z_buffer
    /\ window' = "open"
    /\ UNCHANGED <<new_state, camera_changed, rendered, presented, cleared, drawn,
                   cameraVars, kernelVars, object, fps, update_rate, exported>>

\* fps == 0: one frame, drawn and saved as output.png
DrawAndExportFrame ==
    /\ pc = "scene"
    /\ fps = 0
    /\ \E tris \in RenderOutputs : DrawFrame(0, tris)
    /\ exported' = Some(buffer')
    /\ pc' = "done"
    /\ UNCHANGED <<new_state, camera_changed, presented, cameraVars, kernelVars, object,
                   fps, window, update_rate>>

\* frame_time of Scene::new, from the fps.max(1) main.rs passes
FrameTime(f) == 1000000 \div (IF f < 1 THEN 1 ELSE f)

\* fps != 0: Scene::run up to the loop, limit_update_rate included
Run ==
    /\ pc = "scene"
    /\ fps # 0
    /\ update_rate' = Some(FrameTime(fps))
    /\ pc' = "loop"
    /\ UNCHANGED <<last_state, new_state, camera_changed, rendered, presented,
                   screenVars, cameraVars, kernelVars, object, fps, window, exported>>

\* the loop condition: the window is open and Escape is up, or not
LoopEnter ==
    /\ pc = "loop"
    /\ pc' = "callback"
    /\ UNCHANGED <<last_state, new_state, camera_changed, rendered, presented,
                   screenVars, cameraVars, kernelVars, object, mainVars>>

LoopExit ==
    /\ pc = "loop"
    /\ pc' = "done"
    /\ UNCHANGED <<last_state, new_state, camera_changed, rendered, presented,
                   screenVars, cameraVars, kernelVars, object, mainVars>>

\* update_func returns the next state, having used the camera as it pleased
UpdateFunc(state) ==
    /\ pc = "callback"
    /\ new_state' = state
    /\ pc' = "compare"
    /\ UNCHANGED <<last_state, camera_changed, rendered, presented,
                   screenVars, cameraVars, kernelVars, object, mainVars>>

\* the rest of the iteration: compare, read the flag, draw or not, present
DrawIfChanged ==
    /\ pc = "compare"
    /\ \E state_changed \in {StateChanged(last_state, new_state)},
          r \in {get_and_clear_modified(CurrentCamera)} :
           /\ CameraBecomes(r.camera, "get_and_clear_modified")
           /\ camera_changed' = r.returned
           /\ updated_since_read' = FALSE
           /\ IF ShouldDraw(state_changed, r.returned)
              THEN \E tris \in RenderOutputs : DrawFrame(new_state, tris)
              ELSE /\ rendered' = FALSE
                   /\ UNCHANGED <<last_state, screenVars>>
    /\ presented' = buffer'
    /\ pc' = "loop"
    /\ UNCHANGED <<new_state, kernelVars, object, mainVars>>

NoResult == [t |-> "none", v |-> <<>>]

IdleKernel ==
    /\ operand = NoResult
    /\ op = "input"
    /\ result = NoResult

\* no scene running
IdleLoop ==
    /\ last_state = None
    /\ new_state = 0
    /\ camera_changed = FALSE
    /\ rendered = FALSE
    /\ presented = <<>>

\* no window, nothing written; FpsInputs are the values given for fps
FpsInputs == { 0, 30 }

MainStarts(f) ==
    /\ fps = f
    /\ window = "none"
    /\ update_rate = None
    /\ exported = None

\* no scene, no mesh
IdleScene ==
    /\ IdleLoop
    /\ object = NoResult
    /\ MainStarts(30)

IdleScreen ==
    /\ buffer = <<>>
    /\ z_buffer = <<>>
    /\ cleared = FALSE
    /\ drawn = <<>>

NewCamera(pos, aspect_ratio) ==
    /\ CameraIs(Camera_new(pos, aspect_ratio), "new")
    /\ updated_since_read = FALSE

\* main() after Camera::new
Init ==
    /\ pc = "main"
    /\ NewCamera(Point3Of(0, 0, 0), F(1))
    /\ IdleLoop /\ object = NoResult /\ IdleScreen /\ IdleKernel
    /\ \E f \in FpsInputs : MainStarts(f)

Next ==
    \/ \E point \in Positions : MoveTo(point)
    \/ \E rot \in Rotations : SetRotation(rot)
    \/ \E point \in Targets : PointTo(point)
    \/ Update
    \/ SceneNew
    \/ DrawAndExportFrame
    \/ Run
    \/ LoopEnter
    \/ LoopExit
    \/ \E state \in States : UpdateFunc(state)
    \/ DrawIfChanged

Spec == Init /\ [][Next]_vars

----------------------------------------------------------------------------
(* The camera on its own, in the hands of a client *)

InitCamera ==
    /\ pc = "client"
    /\ \E pos \in Positions, aspect_ratio \in AspectRatios : NewCamera(pos, aspect_ratio)
    /\ IdleScene /\ IdleScreen /\ IdleKernel

NextCamera ==
    \/ \E point \in Positions : MoveTo(point)
    \/ \E rot \in Rotations : SetRotation(rot)
    \/ \E point \in Targets : PointTo(point)
    \/ Update
    \/ GetAndClearModified

SpecCamera == InitCamera /\ [][NextCamera]_vars

----------------------------------------------------------------------------
(* The rasterizer on its own: a new buffer, cleared and filled *)

MaxFills == 2

\* screen-space outlines: the lower-left half of the screen in both windings,
\* the upper-right half, a triangle over the whole screen in both windings, a
\* collinear one and one wholly off screen
OutlineInputs ==
    { << <<0, 0>>, <<Width, 0>>, <<0, Height>> >>,
      << <<0, 0>>, <<0, Height>>, <<Width, 0>> >>,
      << <<Width, Height>>, <<0, Height>>, <<Width, 0>> >>,
      << <<0, 0>>, <<2 * Width, 0>>, <<0, 2 * Height>> >>,
      << <<0, 2 * Height>>, <<2 * Width, 0>>, <<0, 0>> >>,
      << <<0, 0>>, <<Width, Height>>, <<2 * Width, 2 * Height>> >>,
      << <<-3, -3>>, <<-1, -3>>, <<-3, -1>> >>,
      \* wholly off screen on the far side, and one reaching past every side
      << <<Width + 1, 0>>, <<Width + 3, 0>>, <<Width + 1, Height + 2>> >>,
      << <<-1, -1>>, <<2 * Width + 2, -1>>, <<-1, 2 * Height + 2>> >> }

DepthInputs == { <<1, 1, 1>>, <<2, 2, 2>>, <<1, 2, 4>> }

TriangleInputs ==
    { [i \in 1..3 |-> Vertex(o[i][1], o[i][2], d[i])] : o \in OutlineInputs, d \in DepthInputs }

\* every fill is given a colour of its own, so that a pixel names the fill that
\* wrote it
Fill(t) ==
    /\ Len(drawn) < MaxFills
    /\ \E color \in {Len(drawn) + 1} :
         \E sb \in {fill_projected_triangle(CurrentScreenBuffer, t, color)} :
           /\ buffer' = sb.buffer
           /\ z_buffer' = sb.z_buffer
           /\ drawn' = Append(drawn, [triangle |-> t, color |-> color])
    /\ UNCHANGED <<cleared, cameraVars, sceneVars, kernelVars>>

Clear ==
    /\ \E sb \in {clear(CurrentScreenBuffer, BackgroundColor)} :
           /\ buffer' = sb.buffer
           /\ z_buffer' = sb.z_buffer
    /\ cleared' = TRUE
    /\ drawn' = <<>>
    /\ UNCHANGED <<cameraVars, sceneVars, kernelVars>>

InitRaster ==
    /\ buffer = NewScreenBuffer.buffer
    /\ z_buffer = NewScreenBuffer.z_buffer
    /\ cleared = FALSE
    /\ drawn = <<>>
    /\ pc = "raster"
    /\ NewCamera(Point3Of(0, 0, 0), F(1))
    /\ IdleScene /\ IdleKernel

NextRaster ==
    \/ Clear
    \/ \E t \in TriangleInputs : Fill(t)

SpecRaster == InitRaster /\ [][NextRaster]_vars

----------------------------------------------------------------------------
(* Screen (render.rs): the colour buffer of the line and scanline renderer.
   A pixel position is a pair <<x, y>> of integers. *)

Screen_new(w, h) == [buffer |-> [i \in 1..(w * h) |-> 0], width |-> w, height |-> h]

\* the index (from 1) of the pixel get_coords hands out, 0 for None
get_coords(scr, x, y) ==
    IF x >= scr.width \/ y >= scr.height THEN 0
    ELSE IF y * scr.width + x + 1 > Len(scr.buffer) THEN 0
    ELSE y * scr.width + x + 1

get_coords_i(scr, x, y) == IF x < 0 \/ y < 0 THEN 0 ELSE get_coords(scr, x, y)

\* if let Some(pixel) = self.get_coords_i(x, y) { *pixel = color; }
SetPixel(scr, x, y, color) ==
    LET i == get_coords_i(scr, x, y)
    IN  IF i = 0 THEN scr ELSE [scr EXCEPT !.buffer[i] = color]

outside_screen_XOnly(scr, p) == p[1] < 0 \/ p[1] >= scr.width

outside_screen(scr, p) ==
    (p[1] < 0 \/ p[1] >= scr.width) \/ (p[2] < 0 \/ p[2] >= scr.height)

inside_screen(scr, p) ==
    (0 < p[1] /\ p[1] < scr.width) /\ (0 < p[2] /\ p[2] < scr.height)

\* (new_x as isize, new_y as isize)
AsPixel(new_x, new_y) == <<FToI32(new_x), FToI32(new_y)>>

bring_inside(scr, p, slope) ==
    LET is_vertical == ~IsFinite(slope)
        below == p[2] < 0
        above == p[2] >= scr.height
        left == p[1] < 0
        right == p[1] >= scr.width
        old_x == F(p[1])
        old_y == F(p[2])
    IN  IF IsNaN(slope) THEN p
        ELSE IF (above \/ below) /\ FEq(slope, F(0)) THEN p
        ELSE IF (left \/ right) /\ is_vertical THEN p
        ELSE IF is_vertical
        THEN AsPixel(old_x, IF below THEN F(0)
                            ELSE IF above THEN F(scr.height - 1) ELSE old_y)
        ELSE IF left \/ right
        THEN LET new_x == IF left THEN F(0) ELSE F(scr.width - 1)
                 dx == FSub(new_x, old_x)
             IN  AsPixel(new_x, FAdd(FMul(dx, slope), old_y))
        ELSE IF above \/ below
        THEN LET new_y == IF below THEN F(0) ELSE F(scr.height - 1)
                 dy == FSub(new_y, old_y)
             IN  AsPixel(FAdd(FDiv(dy, slope), old_x), new_y)
        ELSE AsPixel(old_x, old_y)

\* the slope draw_line computes from the endpoints it is given
LineSlope(p1, p2) == FDiv(FSub(F(p2[2]), F(p1[2])), FSub(F(p2[1]), F(p1[1])))

\* the endpoints after the two bring_inside calls
ClippedEnds(scr, p1, p2) ==
    LET slope == LineSlope(p1, p2)
    IN  << IF outside_screen(scr, p1) THEN bring_inside(scr, p1, slope) ELSE p1,
           IF outside_screen(scr, p2) THEN bring_inside(scr, p2, slope) ELSE p2 >>

\* while err >= 0.0 { step the minor axis; err -= 1.0 }
RECURSIVE WhileErr(_, _, _, _)
WhileErr(st, swapped, sign_x, sign_y) ==
    IF FLe(F(0), st.err)
    THEN WhileErr([st EXCEPT !.x = IF swapped THEN @ + sign_x ELSE @,
                             !.y = IF swapped THEN @ ELSE @ + sign_y,
                             !.err = FSub(@, F(1)),
                             !.inner = @ + 1],
                  swapped, sign_x, sign_y)
    ELSE st

\* the n remaining iterations of for _ in 1..=dx
RECURSIVE LineLoop(_, _, _, _, _, _, _)
LineLoop(st, n, swapped, sign_x, sign_y, ratio, color) ==
    IF n = 0 THEN st
    ELSE LET plotted == [st EXCEPT !.screen = SetPixel(@, st.x, st.y, color),
                                   !.visited = @ \cup {<<st.x, st.y>>},
                                   !.plotted = Append(@, <<st.x, st.y>>),
                                   !.inner = 0]
             stepped == WhileErr(plotted, swapped, sign_x, sign_y)
             moved == [stepped EXCEPT !.x = IF swapped THEN @ ELSE @ + sign_x,
                                      !.y = IF swapped THEN @ + sign_y ELSE @,
                                      !.err = FAdd(@, ratio),
                                      !.outer = @ + 1,
                                      !.inner_most = IF stepped.inner > @ THEN stepped.inner ELSE @]
         IN  LineLoop(moved, n - 1, swapped, sign_x, sign_y, ratio, color)

\* the major and minor axes are never exchanged
draw_line_Unswapped(scr, p1, p2, color) ==
    LET ends == ClippedEnds(scr, p1, p2)
        q1 == ends[1]
        q2 == ends[2]
        adx == AbsInt(q2[1] - q1[1])
        ady == AbsInt(q2[2] - q1[2])
        sign_x == SignInt(q2[1] - q1[1])
        sign_y == SignInt(q2[2] - q1[2])
        swapped == FALSE
        dx == IF swapped THEN ady ELSE adx
        dy == IF swapped THEN adx ELSE ady
        ratio == FDiv(F(dy), F(dx))
        start == [screen |-> scr, x |-> q1[1], y |-> q1[2],
                  err |-> FSub(ratio, Q(1, 2)), visited |-> {}, plotted |-> << >>,
                  outer |-> 0, inner |-> 0, inner_most |-> 0]
        last == LineLoop(start, dx, swapped, sign_x, sign_y, ratio, color)
    IN  IF outside_screen(scr, q1) \/ outside_screen(scr, q2)
        THEN [screen |-> scr, drawn |-> FALSE, p1 |-> q1, p2 |-> q2, visited |-> {},
              plotted |-> << >>, outer |-> 0, inner_most |-> 0]
        ELSE [screen |-> SetPixel(last.screen, q2[1], q2[2], color),
              drawn |-> TRUE, p1 |-> q1, p2 |-> q2,
              visited |-> last.visited \cup {q2},
              plotted |-> Append(last.plotted, q2),
              outer |-> last.outer, inner_most |-> last.inner_most]

\* Screen::draw_line: the screen it leaves, whether it drew, the endpoints it
\* drew between and the positions it passed to get_coords_i (as a set and in
\* the order of the calls), with the number of iterations of the for loop and
\* the most iterations the while loop made within one of them
draw_line(scr, p1, p2, color) ==
    LET ends == ClippedEnds(scr, p1, p2)
        q1 == ends[1]
        q2 == ends[2]
        adx == AbsInt(q2[1] - q1[1])
        ady == AbsInt(q2[2] - q1[2])
        sign_x == SignInt(q2[1] - q1[1])
        sign_y == SignInt(q2[2] - q1[2])
        swapped == ady > adx
        dx == IF swapped THEN ady ELSE adx
        dy == IF swapped THEN adx ELSE ady
        ratio == FDiv(F(dy), F(dx))
        start == [screen |-> scr, x |-> q1[1], y |-> q1[2],
                  err |-> FSub(ratio, Q(1, 2)), visited |-> {}, plotted |-> << >>,
                  outer |-> 0, inner |-> 0, inner_most |-> 0]
        last == LineLoop(start, dx, swapped, sign_x, sign_y, ratio, color)
    IN  IF outside_screen(scr, q1) \/ outside_screen(scr, q2)
        THEN [screen |-> scr, drawn |-> FALSE, p1 |-> q1, p2 |-> q2, visited |-> {},
              plotted |-> << >>, outer |-> 0, inner_most |-> 0]
        ELSE [screen |-> SetPixel(last.screen, q2[1], q2[2], color),
              drawn |-> TRUE, p1 |-> q1, p2 |-> q2,
              visited |-> last.visited \cup {q2},
              plotted |-> Append(last.plotted, q2),
              outer |-> last.outer, inner_most |-> last.inner_most]

\* Naive bounding box check: one corner of the box strictly inside
should_draw_triangle(scr, p1, p2, p3) ==
    LET Lo(a, b) == IF a < b THEN a ELSE b
        Hi(a, b) == IF a > b THEN a ELSE b
        min_x == Lo(p1[1], Lo(p2[1], p3[1]))
        max_x == Hi(p1[1], Hi(p2[1], p3[1]))
        min_y == Lo(p1[2], Lo(p2[2], p3[2]))
        max_y == Hi(p1[2], Hi(p2[2], p3[2]))
    IN  \/ inside_screen(scr, <<max_x, max_y>>)
        \/ inside_screen(scr, <<min_x, min_y>>)
        \/ inside_screen(scr, <<max_x, min_y>>)
        \/ inside_screen(scr, <<min_x, max_y>>)

----------------------------------------------------------------------------
(* The operations of Screen, applied to inputs drawn from bounded sets *)

LineMargin == 2

\* a 3 x 2 screen with endpoints up to LineMargin pixels off it, the
\* 10 x 10 screen with the line (-5,-5) -> (5,5), and lines of several slopes
\* across a 7 x 5 screen
LineInputs ==
    { [screen |-> Screen_new(3, 2), p1 |-> <<x1, y1>>, p2 |-> <<x2, y2>>] :
          x1 \in (-LineMargin)..(2 + LineMargin), y1 \in (-LineMargin)..(1 + LineMargin),
          x2 \in (-LineMargin)..(2 + LineMargin), y2 \in (-LineMargin)..(1 + LineMargin) }
    \cup { [screen |-> Screen_new(10, 10), p1 |-> <<-5, -5>>, p2 |-> <<5, 5>>] }
    \cup { [screen |-> Screen_new(7, 5), p1 |-> a, p2 |-> b] :
               a \in { <<0, 0>>, <<6, 4>>, <<3, 2>> },
               b \in { <<x, y>> : x \in { 0, 1, 3, 5, 6 }, y \in { 0, 2, 3, 4 } } }

CornerInputs ==
    { <<-1, -1>>, <<0, 0>>, <<1, 1>>, <<2, 1>>, <<4, -1>>, <<-1, 3>>, <<4, 3>>, <<6, 5>> }

ScreenTriangleInputs ==
    { [screen |-> Screen_new(3, 2), p1 |-> a, p2 |-> b, p3 |-> c] :
          a \in CornerInputs, b \in CornerInputs, c \in CornerInputs }

ScreenInputs ==
    { [t |-> "line", v |-> l] : l \in LineInputs }
    \cup { [t |-> "triangle", v |-> tr] : tr \in ScreenTriangleInputs }

LineColor == 1

DrawLine ==
    /\ operand.t = "line"
    /\ op' = "draw_line"
    /\ result' = [t |-> "line",
                  v |-> draw_line(operand.v.screen, operand.v.p1, operand.v.p2, LineColor)]
    /\ UNCHANGED <<operand, cameraVars, sceneVars, screenVars>>

ShouldDrawTriangle ==
    /\ operand.t = "triangle"
    /\ op' = "should_draw_triangle"
    /\ result' = [t |-> "bool",
                  v |-> should_draw_triangle(operand.v.screen, operand.v.p1,
                                             operand.v.p2, operand.v.p3)]
    /\ UNCHANGED <<operand, cameraVars, sceneVars, screenVars>>

InitScreen ==
    /\ operand \in ScreenInputs
    /\ op = "input"
    /\ result = NoResult
    /\ pc = "screen"
    /\ NewCamera(Point3Of(0, 0, 0), F(1))
    /\ IdleScene /\ IdleScreen

NextScreen ==
    \/ DrawLine
    \/ ShouldDrawTriangle

SpecScreen == InitScreen /\ [][NextScreen]_vars

----------------------------------------------------------------------------
(* Object (world/three_dim.rs) and the PLY loader (ply.rs) *)

\* Vec indexes are usize counted from 0; sequences here are counted from 1.
RECURSIVE ExtremesUpTo(_, _)
ExtremesUpTo(vertices, n) ==
    IF n = 0 THEN <<Point3Of(0, 0, 0), Point3Of(0, 0, 0)>>
    ELSE LET e == ExtremesUpTo(vertices, n - 1)
             v == vertices[n]
         IN  << [i \in 1..3 |-> FMin(e[1][i], v[i])],
                [i \in 1..3 |-> FMax(e[2][i], v[i])] >>

\* the extremes taken over the vertices alone
RECURSIVE TightExtremesUpTo(_, _)
TightExtremesUpTo(vertices, n) ==
    IF n = 1 THEN <<vertices[1], vertices[1]>>
    ELSE LET e == TightExtremesUpTo(vertices, n - 1)
             v == vertices[n]
         IN  << [i \in 1..3 |-> FMin(e[1][i], v[i])],
                [i \in 1..3 |-> FMax(e[2][i], v[i])] >>

compute_extremes_Tight(vertices) ==
    IF Len(vertices) = 0 THEN <<Point3Of(0, 0, 0), Point3Of(0, 0, 0)>>
    ELSE TightExtremesUpTo(vertices, Len(vertices))

compute_extremes(vertices) == ExtremesUpTo(vertices, Len(vertices))

compute_size(vertices) ==
    LET extremes == compute_extremes(vertices)
    IN  sub_point(extremes[2], extremes[1])

midpoint(a, b) == [i \in 1..Len(a) |-> FDiv(FAdd(a[i], b[i]), F(2))]

compute_center(vertices) ==
    LET extremes == compute_extremes(vertices)
    IN  midpoint(extremes[1], extremes[2])

\* `vertices[n]` panics when n is not an index of the vector
IndexPanics(face_indexes, vertices) ==
    \E i \in 1..Len(face_indexes) : \E j \in 1..Len(face_indexes[i]) :
        face_indexes[i][j] >= Len(vertices)

\* every face reads the first vertex
map_faces_FirstVertex(face_indexes, vertices) ==
    [i \in 1..Len(face_indexes) |->
        [j \in 1..Len(face_indexes[i]) |-> vertices[1]]]

map_faces(face_indexes, vertices) ==
    [i \in 1..Len(face_indexes) |->
        [j \in 1..Len(face_indexes[i]) |-> vertices[face_indexes[i][j] + 1]]]

ObjectOf(size, vertices, faces, face_indexes) ==
    [t |-> "object",
     v |-> [size |-> size, vertices |-> vertices, faces |-> faces,
            face_indexes |-> face_indexes]]

\* no index is looked at: a face reads the last vertex in place of a missing one
Object_new_Unchecked(vertices, face_indexes) ==
    ObjectOf(compute_size(vertices),
             vertices,
             [i \in 1..Len(face_indexes) |->
                 [j \in 1..Len(face_indexes[i]) |->
                     IF face_indexes[i][j] >= Len(vertices)
                     THEN vertices[Len(vertices)]
                     ELSE vertices[face_indexes[i][j] + 1]]],
             face_indexes)

Object_new(vertices, face_indexes) ==
    IF IndexPanics(face_indexes, vertices) THEN Panic
    ELSE ObjectOf(compute_size(vertices),
                  vertices,
                  map_faces(face_indexes, vertices),
                  face_indexes)

\* the faces are left as they were
Object_scale_StaleFaces(o, by) ==
    IF FEq(by, F(1)) THEN o
    ELSE LET vs == [n \in 1..Len(o.v.vertices) |-> scale(o.v.vertices[n], by)]
         IN  ObjectOf(compute_size(vs), vs, o.v.faces, o.v.face_indexes)

Object_scale(o, by) ==
    IF FEq(by, F(1)) THEN o
    ELSE LET vs == [n \in 1..Len(o.v.vertices) |-> scale(o.v.vertices[n], by)]
         IN  ObjectOf(compute_size(vs), vs,
                      map_faces(o.v.face_indexes, vs), o.v.face_indexes)

Object_normalize_size(o, largest_dimension_target) ==
    LET largest_dimension ==
            FMax(o.v.size[1], FMax(o.v.size[2], o.v.size[3]))
    IN  Object_scale(o, FDiv(largest_dimension_target, largest_dimension))

\* A PLY file as the parser hands it over: the vertex count of the header, the
\* vertex elements (readable says whether x, y and z are all floats), and the
\* face elements (listed says whether the index list property is there).
ReadableVertices(payload) ==
    LET kept == SelectSeq(payload, LAMBDA p : p.readable)
    IN  [n \in 1..Len(kept) |-> kept[n].at]

ListedFaces(faces) ==
    LET kept == SelectSeq(faces, LAMBDA f : f.listed)
    IN  [n \in 1..Len(kept) |-> kept[n].indexes]

FacePanics(face_vec, vertex_count) ==
    \/ \E n \in 1..Len(face_vec) : face_vec[n] >= vertex_count
    \/ Len(face_vec) < 3

ply_load(ply) ==
    LET read == ReadableVertices(ply.payload)
        center == compute_center(read)
        size == compute_size(read)
        vertices == [n \in 1..Len(read) |-> sub_point(read[n], center)]
        face_indexes == ListedFaces(ply.faces)
    IN  IF \E n \in 1..Len(face_indexes) : FacePanics(face_indexes[n], ply.vertex_count)
        THEN Panic
        ELSE IF IndexPanics(face_indexes, vertices) THEN Panic
        ELSE ObjectOf(size, vertices, map_faces(face_indexes, vertices), face_indexes)

\* main.rs loads the mesh and then scales it (a scale given on the command
\* line) or normalizes it to 5.0; the methods are public, and a holder of the
\* Object may call them in any order.
MaxCoord == 16

Mesh(points, face_indexes) ==
    [vertices |-> [n \in 1..Len(points) |-> Point3Of(points[n][1], points[n][2], points[n][3])],
     face_indexes |-> face_indexes]

MeshInputs ==
    { \* a corner at the origin
      Mesh(<< <<0, 0, 0>>, <<2, 0, 0>>, <<0, 1, 0>> >>, << <<0, 1, 2>> >>),
      \* away from the origin
      Mesh(<< <<2, 1, 1>>, <<3, 1, 1>>, <<2, 2, 1>> >>, << <<0, 1, 2>>, <<2, 1, 0>> >>),
      \* around the origin
      Mesh(<< <<-1, -1, 0>>, <<1, -1, 0>>, <<0, 1, 0>>, <<0, 0, 2>> >>,
           << <<0, 1, 2>>, <<0, 1, 3>>, <<0, 1, 2, 3>> >>),
      \* no extent
      Mesh(<< <<0, 0, 0>> >>, << <<0, 0, 0>> >>),
      \* no vertex and no face
      Mesh(<< >>, << >>),
      \* an index past the end
      Mesh(<< <<0, 0, 0>>, <<2, 0, 0>>, <<0, 1, 0>> >>, << <<0, 1, 2>>, <<0, 1, 3>> >>),
      Mesh(<< <<-1, 0, 0>>, <<1, 0, 0>> >>, << <<2, 1, 0>> >>) }

PlyVertex(x, y, z) == [readable |-> TRUE, at |-> Point3Of(x, y, z)]

Unreadable == [readable |-> FALSE, at |-> Point3Of(0, 0, 0)]

PlyFace(indexes) == [listed |-> TRUE, indexes |-> indexes]

Unlisted == [listed |-> FALSE, indexes |-> << >>]

PlyInputs ==
    { [vertex_count |-> 3,
       payload |-> << PlyVertex(0, 0, 0), PlyVertex(2, 0, 0), PlyVertex(0, 2, 0) >>,
       faces |-> << PlyFace(<<0, 1, 2>>) >>],
      [vertex_count |-> 3,
       payload |-> << PlyVertex(2, 2, 2), PlyVertex(4, 2, 2), PlyVertex(2, 4, 2) >>,
       faces |-> << PlyFace(<<0, 1, 2>>), Unlisted >>],
      \* a face of two vertices
      [vertex_count |-> 3,
       payload |-> << PlyVertex(0, 0, 0), PlyVertex(2, 0, 0), PlyVertex(0, 2, 0) >>,
       faces |-> << PlyFace(<<0, 1, 2>>), PlyFace(<<0, 1>>) >>],
      \* an index past the vertex count
      [vertex_count |-> 3,
       payload |-> << PlyVertex(0, 0, 0), PlyVertex(2, 0, 0), PlyVertex(0, 2, 0) >>,
       faces |-> << PlyFace(<<0, 1, 3>>) >>],
      \* an index below the vertex count, its vertex unreadable
      [vertex_count |-> 4,
       payload |-> << PlyVertex(0, 0, 0), PlyVertex(2, 0, 0), Unreadable, PlyVertex(0, 2, 0) >>,
       faces |-> << PlyFace(<<0, 1, 3>>) >>],
      [vertex_count |-> 4,
       payload |-> << PlyVertex(-2, 0, 0), Unreadable, PlyVertex(2, 0, 0), PlyVertex(0, 2, 2) >>,
       faces |-> << PlyFace(<<0, 1, 2>>), PlyFace(<<2, 1, 0, 0>>) >>] }

ScaleFactors == { F(1), F(2), Q(1, 2), F(-1), F(0) }

SizeTargets == { F(1), F(4), F(5) }

BoundedCoord(c) == IF IsFinite(c) THEN AbsInt(c[1]) <= MaxCoord /\ c[2] <= MaxCoord ELSE TRUE

Bounded(o) ==
    \A n \in 1..Len(o.v.vertices) : \A i \in 1..3 : BoundedCoord(o.v.vertices[n][i])

\* Object::new; a panic ends the program
New(mesh) ==
    /\ pc = "object"
    /\ object = NoResult
    /\ object' = Object_new(mesh.vertices, mesh.face_indexes)
    /\ op' = "new"
    /\ operand' = mesh
    /\ result' = NoResult
    /\ UNCHANGED <<pc, last_state, new_state, camera_changed, rendered, presented,
                   cameraVars, screenVars, mainVars>>

\* ply::load
Load(ply) ==
    /\ pc = "object"
    /\ object = NoResult
    /\ object' = ply_load(ply)
    /\ op' = "load"
    /\ operand' = ply
    /\ result' = NoResult
    /\ UNCHANGED <<pc, last_state, new_state, camera_changed, rendered, presented,
                   cameraVars, screenVars, mainVars>>

Scale(by) ==
    /\ pc = "object"
    /\ object.t = "object"
    /\ \E o \in {Object_scale(object, by)} :
          /\ Bounded(o)
          /\ object' = o
    /\ op' = "scale"
    /\ operand' = by
    /\ result' = NoResult
    /\ UNCHANGED <<pc, last_state, new_state, camera_changed, rendered, presented,
                   cameraVars, screenVars, mainVars>>

NormalizeSize(largest_dimension_target) ==
    /\ pc = "object"
    /\ object.t = "object"
    /\ \E o \in {Object_normalize_size(object, largest_dimension_target)} :
          /\ Bounded(o)
          /\ object' = o
    /\ op' = "normalize_size"
    /\ operand' = largest_dimension_target
    /\ result' = NoResult
    /\ UNCHANGED <<pc, last_state, new_state, camera_changed, rendered, presented,
                   cameraVars, screenVars, mainVars>>

InitObject ==
    /\ pc = "object"
    /\ NewCamera(Point3Of(0, 0, 0), F(1))
    /\ IdleScene /\ IdleScreen /\ IdleKernel

NextObject ==
    \/ \E mesh \in MeshInputs : New(mesh)
    \/ \E ply \in PlyInputs : Load(ply)
    \/ \E by \in ScaleFactors : Scale(by)
    \/ \E largest_dimension_target \in SizeTargets : NormalizeSize(largest_dimension_target)

SpecObject == InitObject /\ [][NextObject]_vars

----------------------------------------------------------------------------
(* The kernel operations, applied to inputs drawn from bounded sets *)

MaxEntry == 1

Entries == (-MaxEntry)..MaxEntry

\* the 3x3 and 4x4 inputs outside the first three entries of row 1: a fixed
\* dense pattern with d on the diagonal
LowerEntry(y, x, d) == IF x = y THEN d ELSE ((x + 2 * y) % 3) - 1

SquareInputs(n) ==
    IF n = 2
    THEN { <<<<F(a), F(b)>>, <<F(c), F(d)>>>> : a \in Entries, b \in Entries,
                                                 c \in Entries, d \in Entries }
    ELSE { [y \in 1..n |-> [x \in 1..n |->
               IF y = 1 /\ x <= 3 THEN F(first[x]) ELSE F(LowerEntry(y, x, d))]] :
           first \in [1..3 -> Entries], d \in Entries }

MatrixInputs == SquareInputs(2) \cup SquareInputs(3) \cup SquareInputs(4)

PointInputs ==
    { <<F(x), F(y), F(z)>> : x \in Entries, y \in Entries, z \in Entries }
    \cup { <<F(x), F(y), F(z), F(w)>> : x \in Entries, y \in Entries,
                                        z \in Entries, w \in 0..(MaxEntry + 1) }

\* faces whose edge vectors and first vertex lie along the axes, so that every
\* magnitude normalize() takes is rational
AxisPoints ==
    { [i \in 1..3 |-> IF i = m THEN F(k) ELSE F(0)] : m \in 1..3, k \in Entries }

FaceInputs ==
    { <<v0, add_point(v0, l1), add_point(v0, l2)>> :
          v0 \in AxisPoints, l1 \in AxisPoints, l2 \in AxisPoints }

\* faces off the axes that cross the plane z = 1, in both windings, and one
\* wholly in front of it
StraddlingFaceInputs ==
    { << Point3Of(3, 0, 4), Point3Of(3, 1, 4), Point3Of(3, 0, -1) >>,
      << Point3Of(3, 0, 4), Point3Of(3, 0, -1), Point3Of(3, 1, 4) >>,
      << Point3Of(0, 3, 4), Point3Of(0, 3, -1), Point3Of(1, 3, 4) >>,
      << Point3Of(-3, 0, 4), Point3Of(-3, 0, 2), Point3Of(-3, 1, 4) >> }

KernelInputs ==
    { [t |-> "matrix", v |-> m] : m \in MatrixInputs }
    \cup { [t |-> "point", v |-> p] : p \in PointInputs }
    \cup { [t |-> "face", v |-> f] : f \in FaceInputs \cup StraddlingFaceInputs }

\* Matrix<2,2> has determinant() alone; inverse() is defined by the impl blocks
\* of Matrix<3,3> and Matrix<4,4>
InverseAvailable(M) == Rows(M) \in {3, 4}

determinant(M) ==
    CASE Rows(M) = 2 -> determinant2(M)
      [] Rows(M) = 3 -> determinant3(M)
      [] Rows(M) = 4 -> determinant4(M)

Determinant ==
    /\ operand.t = "matrix"
    /\ op' = "determinant"
    /\ result' = [t |-> "scalar", v |-> determinant(operand.v)]
    /\ UNCHANGED <<operand, cameraVars, sceneVars, screenVars>>

Inverse ==
    /\ operand.t = "matrix"
    /\ InverseAvailable(operand.v)
    /\ op' = "inverse"
    /\ result' = [t |-> "matrix", v |-> inverse(operand.v)]
    /\ UNCHANGED <<operand, cameraVars, sceneVars, screenVars>>

\* M.inverse() * M
InverseTimes ==
    /\ operand.t = "matrix"
    /\ InverseAvailable(operand.v)
    /\ op' = "inverse_mul"
    /\ result' = [t |-> "matrix", v |-> Mul(inverse(operand.v), operand.v)]
    /\ UNCHANGED <<operand, cameraVars, sceneVars, screenVars>>

EucToHom ==
    /\ operand.t = "point"
    /\ Len(operand.v) = 3
    /\ op' = "euc_to_hom"
    /\ result' = PointResult(euc_to_hom(operand.v))
    /\ UNCHANGED <<operand, cameraVars, sceneVars, screenVars>>

HomToEuc ==
    /\ operand.t = "point"
    /\ op' = "hom_to_euc"
    /\ result' = hom_to_euc(operand.v)
    /\ UNCHANGED <<operand, cameraVars, sceneVars, screenVars>>

\* p.euc_to_hom().hom_to_euc()
RoundTrip ==
    /\ operand.t = "point"
    /\ Len(operand.v) = 3
    /\ op' = "round_trip"
    /\ result' = hom_to_euc(euc_to_hom(operand.v))
    /\ UNCHANGED <<operand, cameraVars, sceneVars, screenVars>>

ClassifySurface ==
    /\ operand.t = "face"
    /\ op' = "orientation"
    /\ result' = [t |-> "surface", v |-> Surface(operand.v)]
    /\ UNCHANGED <<operand, cameraVars, sceneVars, screenVars>>

\* the camera matrix handed to render: the focal matrix of aspect ratio 1
RenderCamera == make_focal_matrix(F(0), F(0), F(1))

\* render, for one face already rotated and moved to its place
Render ==
    /\ operand.t = "face"
    /\ op' = "render"
    /\ result' = [t |-> "rendered", v |-> RenderFace(RenderCamera, operand.v)]
    /\ UNCHANGED <<operand, cameraVars, sceneVars, screenVars>>

InitKernel ==
    /\ operand \in KernelInputs
    /\ op = "input"
    /\ result = NoResult
    /\ pc = "kernel"
    /\ NewCamera(Point3Of(0, 0, 0), F(1))
    /\ IdleScene /\ IdleScreen

NextKernel ==
    \/ Determinant
    \/ Inverse
    \/ InverseTimes
    \/ EucToHom
    \/ HomToEuc
    \/ RoundTrip
    \/ ClassifySurface
    \/ Render

SpecKernel == InitKernel /\ [][NextKernel]_vars

----------------------------------------------------------------------------
(* Claims about the render loop, under Spec *)

\* C1: an iteration of Scene::run draws a frame (clear, then render) exactly
\* when no frame was drawn before, or the state the callback returned differs
\* from the one last drawn, or the camera's modified flag is set; otherwise it
\* leaves the colour buffer and the z-buffer as they were; either way it
\* presents the buffer.
C1_RedrawIffChanged ==
    [][ (pc = "compare" /\ pc' = "loop") =>
            LET needed == \/ last_state = None
                          \/ last_state[1] # new_state
                          \/ modified
            IN  /\ rendered' = needed
                /\ needed =>
                       /\ cleared'
                       /\ last_state' = Some(new_state)
                       /\ buffer' = FillAll(clear(CurrentScreenBuffer, BackgroundColor),
                                            drawn', Len(drawn')).buffer
                /\ (~needed) =>
                       /\ buffer' = buffer
                       /\ z_buffer' = z_buffer
                       /\ last_state' = last_state
                /\ presented' = buffer'
      ]_vars

\* an iteration that found nothing changed and presented the frame drawn before
C1_Witness ==
    /\ pc = "loop"
    /\ ~rendered
    /\ cleared
    /\ last_state = Some(new_state)
    /\ ~camera_changed
    /\ presented = buffer

----------------------------------------------------------------------------
(* Claims about the camera, under SpecCamera *)

\* the camera frame of a position and a rotation: the rotated axes as columns,
\* the position as the fourth
RefFrame(pos, rot) ==
    LET R == make_rotation_matrix(rot[1], rot[2], rot[3])
    IN  [y \in 1..4 |-> [x \in 1..4 |->
            IF y = 4 THEN (IF x = 4 THEN F(1) ELSE F(0))
            ELSE IF x = 4 THEN pos[y]
            ELSE R[y][x]]]

\* C2: after Camera::new and after every update(), combined_matrix is
\* focal_matrix * view_matrix, the view matrix being the inverse of the camera
\* frame of the current position and rotation.
C2_CombinedIsFocalTimesView ==
    (last_call \in {"new", "update"}) =>
        /\ combined_matrix = Mul(focal_matrix, view_matrix)
        /\ Mul(view_matrix, RefFrame(position, rotation)) = Identity(4)

\* update() after the camera was moved and turned, the aspect ratio not 1
C2_Witness ==
    /\ last_call = "update"
    /\ position # Point3Of(0, 0, 0)
    /\ rotation # <<0, 0, 0>>
    /\ focal_matrix[1][1] # F(1)

\* the cached combined_matrix is not the one of the current position and rotation
Stale ==
    combined_matrix # Mul(focal_matrix, rotation_view_matrix(position, rotation))

\* C3 as stated: modified is true in every state in which the cached
\* combined_matrix does not correspond to the current position and rotation.
C3_StaleIsFlagged == Stale => modified

\* C3, amended: move_to() and set_rotation() leave the modified flag and the
\* cached matrices as they were; the flag goes up only in update(), which
\* leaves the cache fresh.
C3_SettersLeaveFlag ==
    /\ [][ /\ (last_call' \in {"move_to", "set_rotation"}) =>
                   /\ modified' = modified
                   /\ view_matrix' = view_matrix
                   /\ combined_matrix' = combined_matrix
           /\ (modified' /\ ~modified) => (last_call' = "update")
         ]_vars
    /\ []((last_call = "update") => (modified /\ ~Stale))

\* moved, not updated: the cache is stale and the flag is down
C3_Witness ==
    /\ last_call = "move_to"
    /\ Stale
    /\ ~modified

\* C4: update() sets the flag; get_and_clear_modified() returns true exactly
\* when update() was called since the previous read (or since construction),
\* and leaves the flag false.
C4_FlagReportsUpdate ==
    [][ /\ (last_call' = "update") => modified'
        /\ (pc = "client" /\ last_call' = "get_and_clear_modified") =>
               /\ camera_changed' = updated_since_read
               /\ ~modified'
      ]_vars

\* a read that returned true and left the flag false
C4_Witness ==
    /\ last_call = "get_and_clear_modified"
    /\ camera_changed
    /\ ~modified

----------------------------------------------------------------------------
(* Claims about the rasterizer, under SpecRaster *)

\* the value at (px, py) of the edge function of vi -> vj
RefEdge(vi, vj, px, py) ==
    FAdd(FAdd(FMul(FSub(vi.y, vj.y), px), FMul(FSub(vj.x, vi.x), py)),
         FSub(FMul(vi.x, vj.y), FMul(vj.x, vi.y)))

RefEdges(t, x, y) ==
    LET px == FAdd(F(x), Q(1, 2))
        py == FAdd(F(y), Q(1, 2))
    IN  << RefEdge(t[1], t[2], px, py), RefEdge(t[2], t[3], px, py),
           RefEdge(t[3], t[1], px, py) >>

\* the centre of pixel (x, y) lies in the triangle, whichever way it winds
Covers(t, x, y) ==
    LET e == RefEdges(t, x, y)
    IN  /\ ~FEq(FAdd(FAdd(e[1], e[2]), e[3]), F(0))
        /\ \/ \A i \in 1..3 : FLe(F(0), e[i])
           \/ \A i \in 1..3 : FLe(e[i], F(0))

\* the perspective-correct depth of the triangle at the centre of pixel (x, y)
RefDepth(t, x, y) ==
    LET e == RefEdges(t, x, y)
        sum == FAdd(FAdd(e[1], e[2]), e[3])
    IN  FRecip(FAdd(FAdd(FDiv(FDiv(e[2], sum), t[1].z), FDiv(FDiv(e[3], sum), t[2].z)),
                    FDiv(FDiv(e[1], sum), t[3].z)))

\* C5: after clear(), of two triangles drawn in either order that both cover a
\* pixel at different depths, the nearer one's colour is in the pixel.
C5_NearerTriangleWins ==
    (cleared /\ Len(drawn) = 2) =>
        \A p \in Pixels :
            LET a == drawn[1]
                b == drawn[2]
                da == RefDepth(a.triangle, p[1], p[2])
                db == RefDepth(b.triangle, p[1], p[2])
            IN  (/\ Covers(a.triangle, p[1], p[2])
                 /\ Covers(b.triangle, p[1], p[2])
                 /\ ~FEq(da, db)) =>
                    buffer[BufferIndex(p[1], p[2])] = (IF FLt(da, db) THEN a.color ELSE b.color)

\* C6: a fill writes a pixel only where its depth is strictly below the stored
\* one: no z-buffer entry rises, a colour changes only where the entry falls,
\* and where the entry falls the colour is the fill's.
C6_DepthTestIsStrict ==
    [][ (Len(drawn') = Len(drawn) + 1) =>
            \A i \in 1..(Width * Height) :
                /\ FLe(z_buffer'[i], z_buffer[i])
                /\ (buffer'[i] # buffer[i]) => FLt(z_buffer'[i], z_buffer[i])
                /\ (z_buffer'[i] # z_buffer[i]) => (buffer'[i] = drawn'[Len(drawn')].color)
      ]_vars

\* the same triangle drawn twice after a clear: the first fill keeps its pixels
C6_Witness ==
    /\ cleared
    /\ Len(drawn) = 2
    /\ drawn[1].triangle = drawn[2].triangle
    /\ \E i \in 1..(Width * Height) :
           buffer[i] = drawn[1].color /\ FLt(z_buffer[i], F32_MAX)

----------------------------------------------------------------------------
(* Claims about the kernel and the visibility stage, under SpecKernel *)

\* the textbook cross product and the sign of (v0 - camera) . ((v1-v0) x (v2-v0))
RefCross(p, q) ==
    << FSub(FMul(p[2], q[3]), FMul(p[3], q[2])),
       FSub(FMul(p[3], q[1]), FMul(p[1], q[3])),
       FSub(FMul(p[1], q[2]), FMul(p[2], q[1])) >>

RefFacingSign(s) ==
    LET d == sub_point(s[1], CameraOrigin)
        n == RefCross(sub_point(s[2], s[1]), sub_point(s[3], s[1]))
        v == FAdd(FAdd(FMul(d[1], n[1]), FMul(d[2], n[2])), FMul(d[3], n[3]))
    IN  SignInt(v[1])

\* C7: the visibility stage classifies a triangle (v0,v1,v2) as facing the
\* camera iff normalize(v0 - camera) . normalize((v1-v0) x (v2-v0)) < 0, skips
\* (never rasterizes) it when that dot product is >= 0, and decides the other
\* way for the reversed winding whenever the dot product is not zero.
C7_BackFaceCulling ==
    op = "orientation" =>
        LET s == operand.v
            reversed == <<s[1], s[3], s[2]>>
            mirrored == <<s[3], s[2], s[1]>>
        IN  /\ ((result.v.orientation = "TowardsCamera") <=> (RefFacingSign(s) < 0))
            /\ ((RefFacingSign(s) >= 0) => SkippedByCull(result.v))
            /\ ((RefFacingSign(s) < 0) => ~SkippedByCull(result.v))
            /\ (RefFacingSign(s) # 0) =>
                   /\ surface_orientation(reversed) # result.v.orientation
                   /\ (HasExactSqrt(SquaresUpTo(s[3], 3)) =>
                          surface_orientation(mirrored) # result.v.orientation)

C7_Witness ==
    /\ op = "orientation"
    /\ result.v.orientation = "TowardsCamera"
    /\ surface_orientation(<<operand.v[1], operand.v[3], operand.v[2]>>) = "AwayFromCamera"

\* C8 as stated: for every square matrix of size 2, 3 or 4 with nonzero
\* determinant, inverse() is available and M.inverse() * M is the identity.
C8_InverseAllSizes ==
    (operand.t = "matrix" /\ ~FEq(determinant(operand.v), F(0))) =>
        /\ InverseAvailable(operand.v)
        /\ Mul(inverse(operand.v), operand.v) = Identity(Rows(operand.v))

\* C8, amended: for every 3x3 and 4x4 matrix with nonzero determinant,
\* M.inverse() * M is the identity and adjugate(M) * M = det(M) * I; inverse()
\* is applied to 3x3 and 4x4 matrices only (a 2x2 matrix has determinant() alone).
C8_InverseTimesIsIdentity ==
    /\ (op = "inverse_mul") =>
          /\ Rows(operand.v) \in {3, 4}
          /\ (~FEq(determinant(operand.v), F(0))) =>
                 (result.v = Identity(Rows(operand.v)))
    /\ (op = "inverse" /\ ~FEq(determinant(operand.v), F(0))) =>
          /\ Mul(result.v, operand.v) = Identity(Rows(operand.v))
          /\ Mul(scalar(result.v, determinant(operand.v)), operand.v)
                 = scalar(Identity(Rows(operand.v)), determinant(operand.v))

C8_Witness ==
    /\ op = "inverse_mul"
    /\ Rows(operand.v) = 4
    /\ ~FEq(determinant(operand.v), F(0))
    /\ ~FEq(determinant(operand.v), F(1))
    /\ result.v = Identity(4)

\* first-row cofactor expansion, by the definition
RefMinor(M, x) ==
    [i \in 1..(Len(M) - 1) |-> [j \in 1..(Len(M) - 1) |->
        M[i + 1][IF j < x THEN j ELSE j + 1]]]

RECURSIVE RefDeterminant(_)
RECURSIVE RefExpansionUpTo(_, _)
RefExpansionUpTo(M, n) ==
    IF n = 0 THEN F(0)
    ELSE FAdd(RefExpansionUpTo(M, n - 1),
              FMul(IF n % 2 = 1 THEN F(1) ELSE F(-1),
                   FMul(M[1][n], RefDeterminant(RefMinor(M, n)))))

RefDeterminant(M) == IF Len(M) = 1 THEN M[1][1] ELSE RefExpansionUpTo(M, Len(M))

\* C9: determinant() of a 3x3 or 4x4 matrix is its first-row cofactor
\* expansion, and equals determinant_from_minors(matrix_of_minors()), the value
\* inverse() divides by.
C9_DeterminantIsCofactorExpansion ==
    (op = "determinant" /\ Rows(operand.v) \in {3, 4}) =>
        /\ result.v = RefDeterminant(operand.v)
        /\ result.v = determinant_from_minors(operand.v, matrix_of_minors(operand.v))

C9_Witness ==
    /\ op = "determinant"
    /\ Rows(operand.v) = 4
    /\ \A x \in 1..4 : operand.v[1][x] # F(0)
    /\ result.v # F(0)

\* C10: p.euc_to_hom().hom_to_euc() is p for every 3D point p, and hom_to_euc()
\* of a homogeneous point whose last component is 0 panics, for 4D -> 3D and
\* for 3D -> 2D.
C10_HomogeneousRoundTrip ==
    /\ (op = "round_trip") => (result = PointResult(operand.v))
    /\ (op = "euc_to_hom") => /\ Len(result.v) = 4
                              /\ hom_to_euc(result.v) = PointResult(operand.v)
    /\ (op = "hom_to_euc") =>
          (result = Panic <=> operand.v[Len(operand.v)] = F(0))

C10_Witness ==
    /\ op = "hom_to_euc"
    /\ Len(operand.v) = 4
    /\ operand.v[4] = F(0)
    /\ operand.v[1] # F(0)
    /\ result = Panic

----------------------------------------------------------------------------
(* Claims about the line renderer, under SpecScreen *)

\* 0 <= x < width and 0 <= y < height
InScreen(scr, p) == 0 <= p[1] /\ p[1] < scr.width /\ 0 <= p[2] /\ p[2] < scr.height

\* the pixels of the screen in the line's colour
Painted(scr) ==
    { <<x, y>> \in (0..(scr.width - 1)) \X (0..(scr.height - 1)) :
          scr.buffer[y * scr.width + x + 1] = LineColor }

\* C11: for endpoints A and B inside the screen, draw_line(A, B, c) and
\* draw_line(B, A, c) on equal buffers colour the same set of pixels.
C11_LineSymmetric ==
    (/\ op = "draw_line"
     /\ InScreen(operand.v.screen, operand.v.p1)
     /\ InScreen(operand.v.screen, operand.v.p2)) =>
        Painted(result.v.screen)
            = Painted(draw_line(operand.v.screen, operand.v.p2, operand.v.p1, LineColor).screen)

\* C12: the endpoints draw_line draws between lie inside the screen, the
\* buffer keeps its size and holds the line's colour exactly at the positions
\* the loop visited, all of them inside; a skipped line leaves the buffer as
\* it was; the line (-5,-5) -> (5,5) on the 10 x 10 screen is drawn from (0,0)
\* to (5,5).
C12_ClippedLineStaysInside ==
    (op = "draw_line") =>
        LET scr == operand.v.screen
            r == result.v
        IN  /\ Len(r.screen.buffer) = scr.width * scr.height
            /\ r.drawn => (InScreen(scr, r.p1) /\ InScreen(scr, r.p2))
            /\ \A v \in r.visited : InScreen(scr, v)
            /\ Painted(r.screen) = r.visited
            /\ (~r.drawn) => (r.screen = scr)
            /\ (scr.width = 10) => (r.drawn /\ r.p1 = <<0, 0>> /\ r.p2 = <<5, 5>>)

\* the line (-5,-5) -> (5,5) on the 10 x 10 screen, drawn
C12_Witness ==
    /\ op = "draw_line"
    /\ operand.v.screen.width = 10
    /\ operand.v.p1 = <<-5, -5>>
    /\ result.v.drawn
    /\ Painted(result.v.screen) = { <<k, k>> : k \in 0..5 }

\* C13: a line with an endpoint inside the screen, which therefore meets the
\* screen, is drawn, and a line is skipped only when both of its endpoints
\* remain outside the screen after the re-projection.
C13_VisiblePartDrawn ==
    (op = "draw_line") =>
        LET scr == operand.v.screen
            r == result.v
        IN  /\ (InScreen(scr, operand.v.p1) \/ InScreen(scr, operand.v.p2)) => r.drawn
            /\ (~r.drawn) => (~InScreen(scr, r.p1) /\ ~InScreen(scr, r.p2))


----------------------------------------------------------------------------
(* C14..C17: the mesh *)

\* the coordinates along axis i that f32::min and f32::max take into account
AxisCoords(vertices, i) ==
    { vertices[n][i] : n \in 1..Len(vertices) } \ {NaN}

GreatestOf(S) == CHOOSE m \in S : \A x \in S : FLe(x, m)

LeastOf(S) == CHOOSE m \in S : \A x \in S : FLe(m, x)

\* the size the code keeps: the extent of the vertices and the origin together
RefSize(vertices) ==
    [i \in 1..3 |-> FSub(GreatestOf(AxisCoords(vertices, i) \cup {F(0)}),
                         LeastOf(AxisCoords(vertices, i) \cup {F(0)}))]

FacesRead(o) ==
    /\ Len(o.faces) = Len(o.face_indexes)
    /\ \A i \in 1..Len(o.face_indexes) :
          /\ Len(o.faces[i]) = Len(o.face_indexes[i])
          /\ \A j \in 1..Len(o.face_indexes[i]) :
                /\ o.face_indexes[i][j] < Len(o.vertices)
                /\ o.faces[i][j] = o.vertices[o.face_indexes[i][j] + 1]

\* C14: scale(1.0) leaves the vertices, the faces, the face indexes and the
\* size as they were; scale by any other factor multiplies every vertex by the
\* factor and computes the size and the faces again from the new vertices.
C14_ScaleByOneIsIdentity ==
    [][ (op' = "scale" /\ object.t = "object") =>
          IF operand' = F(1) THEN object' = object
          ELSE /\ object'.t = "object"
               /\ Len(object'.v.vertices) = Len(object.v.vertices)
               /\ \A n \in 1..Len(object.v.vertices) : \A i \in 1..3 :
                     object'.v.vertices[n][i] = FMul(object.v.vertices[n][i], operand')
               /\ object'.v.size = RefSize(object'.v.vertices)
               /\ object'.v.face_indexes = object.v.face_indexes
               /\ FacesRead(object'.v) ]_vars

C14_Witness ==
    /\ op = "scale"
    /\ operand = F(2)
    /\ object.t = "object"
    /\ object.v.vertices = << Point3Of(0, 0, 0), Point3Of(4, 0, 0), Point3Of(0, 2, 0) >>
    /\ object.v.size = Point3Of(4, 2, 0)
    /\ object.v.faces = << << Point3Of(0, 0, 0), Point3Of(4, 0, 0), Point3Of(0, 2, 0) >> >>


\* the bounding dimension along axis i: greatest minus least vertex coordinate
Extent(vertices, i) ==
    FSub(GreatestOf(AxisCoords(vertices, i)), LeastOf(AxisCoords(vertices, i)))

HasExtent(vertices) ==
    /\ Len(vertices) > 0
    /\ \A i \in 1..3 : AxisCoords(vertices, i) # {}
    /\ \E i \in 1..3 : FLt(F(0), Extent(vertices, i))

LargestExtent(vertices) ==
    GreatestOf({ Extent(vertices, i) : i \in 1..3 })

\* C15: for a mesh of nonzero extent and a target above zero, after
\* normalize_size(target) the largest bounding dimension of the vertices equals
\* the target, and every vertex has been multiplied by one and the same factor.
C15_NormalizedToTarget ==
    [][ (/\ op' = "normalize_size"
         /\ object.t = "object"
         /\ HasExtent(object.v.vertices)
         /\ FLt(F(0), operand')) =>
          /\ object'.t = "object"
          /\ HasExtent(object'.v.vertices)
          /\ LargestExtent(object'.v.vertices) = operand'
          /\ \E k \in { FDiv(operand', LargestExtent(object.v.vertices)) } :
                \A n \in 1..Len(object.v.vertices) :
                    object'.v.vertices[n] = scale(object.v.vertices[n], k) ]_vars


\* C16: after any sequence of Object::new, scale and normalize_size,
\* faces()[i][j] is vertices()[face_indexes[i][j]] for every face i and corner
\* j, and face_indexes is never changed once the Object is built.
C16_FacesFollowVertices ==
    /\ []((object.t = "object") => FacesRead(object.v))
    /\ []((op = "new" /\ object.t = "object") =>
              object.v.face_indexes = operand.face_indexes)
    /\ [][ (object.t = "object") =>
              object'.v.face_indexes = object.v.face_indexes ]_vars

C16_Witness ==
    /\ op = "normalize_size"
    /\ operand = F(4)
    /\ object.t = "object"
    /\ object.v.face_indexes = << <<0, 1, 2>>, <<0, 1, 3>>, <<0, 1, 2, 3>> >>
    /\ object.v.vertices[4] = Point3Of(0, 0, 4)
    /\ object.v.faces[3][4] = Point3Of(0, 0, 4)


\* some index of some face is not an index of a vector of `count` vertices
OutOfRange(face_indexes, count) ==
    \E i \in 1..Len(face_indexes) : \E j \in 1..Len(face_indexes[i]) :
        face_indexes[i][j] >= count

\* C17: every Object that exists has all its face indexes below
\* vertices.len(); Object::new and the PLY load abort with a panic when given
\* an index out of range, and the PLY load aborts on a face of fewer than three
\* vertices; nothing runs after the abort.
C17_IndexesInRange ==
    /\ []((object.t = "object") =>
              ~OutOfRange(object.v.face_indexes, Len(object.v.vertices)))
    /\ []((op = "new" /\ OutOfRange(operand.face_indexes, Len(operand.vertices))) =>
              object = Panic)
    /\ []((op = "load" /\ \E n \in 1..Len(operand.faces) :
                              /\ operand.faces[n].listed
                              /\ \/ Len(operand.faces[n].indexes) < 3
                                 \/ OutOfRange(<<operand.faces[n].indexes>>,
                                               Len(SelectSeq(operand.payload,
                                                             LAMBDA p : p.readable)))) =>
              object = Panic)
    /\ [][object.t # "panic"]_vars

C17_Witness ==
    /\ op = "new"
    /\ Len(operand.vertices) = 2
    /\ operand.face_indexes = << <<2, 1, 0>> >>
    /\ object = Panic


----------------------------------------------------------------------------
(* C18..C19: the buffers of the rasterizer *)

\* C18: the colour buffer and the z-buffer both hold width*height entries at
\* all times, and a clear(color) leaves every colour entry equal to color and
\* every depth entry equal to f32::MAX, the greatest depth the buffer can hold,
\* whatever had been drawn before it.
C18_ClearResetsBothBuffers ==
    /\ [](Len(buffer) = Width * Height /\ Len(z_buffer) = Width * Height)
    /\ [][ (cleared' /\ drawn' = <<>>) =>
              /\ \A i \in 1..(Width * Height) : buffer'[i] = BackgroundColor
              /\ \A i \in 1..(Width * Height) : z_buffer'[i] = F32_MAX ]_vars

C18_Witness ==
    /\ pc = "raster"
    /\ cleared
    /\ drawn = <<>>
    /\ buffer = [i \in 1..(Width * Height) |-> BackgroundColor]
    /\ z_buffer = [i \in 1..(Width * Height) |-> F32_MAX]


\* the pixels holding the colour of the single fill made since the clear
FilledBy(t) ==
    { px \in Pixels :
        fill_projected_triangle(clear(NewScreenBuffer, BackgroundColor), t, 1)
            .buffer[BufferIndex(px[1], px[2])] = 1 }

Reversed(t) == << t[3], t[2], t[1] >>

\* C19: a fill accepts a pixel exactly when its three edge values share the
\* sign of the triangle's winding, so the pixels inside a triangle are filled
\* whichever way its vertices wind, and the same vertices in reversed order
\* cover the same pixels.
C19_EitherWindingFilled ==
    (cleared /\ Len(drawn) = 1) =>
        /\ \A px \in Pixels :
              (buffer[BufferIndex(px[1], px[2])] = drawn[1].color)
                  <=> Covers(drawn[1].triangle, px[1], px[2])
        /\ FilledBy(Reversed(drawn[1].triangle)) = FilledBy(drawn[1].triangle)


----------------------------------------------------------------------------
(* C20: the rejection test before a fill *)

LeastInt(S) == CHOOSE m \in S : \A x \in S : m <= x

GreatestInt(S) == CHOOSE m \in S : \A x \in S : x <= m

\* the bounding box of the three corners shares a pixel with the screen
BoxOverlapsScreen(scr, p1, p2, p3) ==
    LET xs == { p1[1], p2[1], p3[1] }
        ys == { p1[2], p2[2], p3[2] }
    IN  /\ LeastInt(xs) <= scr.width - 1
        /\ GreatestInt(xs) >= 0
        /\ LeastInt(ys) <= scr.height - 1
        /\ GreatestInt(ys) >= 0

\* C20: should_draw_triangle rejects a triangle only when it lies entirely
\* outside the screen: every triangle whose bounding box overlaps the screen,
\* one whose bounding box encloses the whole screen included, is passed on to
\* the fill.
C20_OverlappingTriangleIsDrawn ==
    (op = "should_draw_triangle"
        /\ BoxOverlapsScreen(operand.v.screen, operand.v.p1, operand.v.p2, operand.v.p3))
    => result.v


----------------------------------------------------------------------------
(* C21: the single-frame mode of main.rs *)

\* C21: with fps = 0 the program renders exactly one frame (one clear, one
\* render) and exports it as a still image, without opening a window, entering
\* the render loop, limiting the update rate or presenting a buffer; with
\* fps > 0 it runs the loop and never exports.
C21_SingleFrameMode ==
    /\ []((fps = 0 /\ pc # "main") =>
              /\ window = "none"
              /\ update_rate = None
              /\ presented = <<>>
              /\ pc \in {"scene", "done"})
    /\ []((fps = 0 /\ pc = "scene") => (~rendered /\ ~cleared /\ exported = None))
    /\ []((fps = 0 /\ pc = "done") => (rendered /\ cleared /\ exported = Some(buffer)))
    /\ []((fps # 0) => exported = None)
    /\ []((fps # 0 /\ pc = "done") => update_rate # None)


----------------------------------------------------------------------------
(* C22: the look-at target and update() *)

\* C22: when update() is called after point_to(target), view_matrix is the
\* look-at view matrix point_to computed for the target and combined_matrix is
\* focal_matrix times that matrix.
C22_UpdateKeepsTarget ==
    [][ (last_call = "point_to" /\ last_call' = "update") =>
            /\ view_matrix' = view_matrix
            /\ combined_matrix' = Mul(focal_matrix, view_matrix) ]_vars


----------------------------------------------------------------------------
(* C24: the near-plane test *)

\* the projection of a vertex by the camera of aspect ratio 1: division by z
RefProjection(p) ==
    IF FEq(p[3], F(0)) THEN Panic
    ELSE PointResult(<< FDiv(p[1], p[3]), FDiv(p[2], p[3]) >>)

----------------------------------------------------------------------------
(* C25: the indexes of the pixel loop *)

\* no point of the triangle's own bounding box is on the screen
OffScreen(t) ==
    \/ FLt(Max3(t[1].x, t[2].x, t[3].x), F(0))
    \/ FLe(F(Width), Min3(t[1].x, t[2].x, t[3].x))
    \/ FLt(Max3(t[1].y, t[2].y, t[3].y), F(0))
    \/ FLe(F(Height), Min3(t[1].y, t[2].y, t[3].y))

\* C25: for every triangle with finite coordinates, wherever it lies, the
\* pixel loop of fill_projected_triangle visits only pixels (x, y) with
\* 0 <= x < width and 0 <= y < height, so every index y*width + x it uses is
\* an index of both buffers; a triangle wholly off screen changes nothing.
C25_FillStaysInBuffer ==
    /\ [](\A n \in 1..Len(drawn) :
              \A px \in LoopPixels(BoundingBox(drawn[n].triangle)) :
                  /\ px \in Pixels
                  /\ BufferIndex(px[1], px[2]) \in 1..Len(buffer)
                  /\ BufferIndex(px[1], px[2]) \in 1..Len(z_buffer))
    /\ [][ (Len(drawn') = Len(drawn) + 1 /\ OffScreen(drawn'[Len(drawn')].triangle)) =>
               (buffer' = buffer /\ z_buffer' = z_buffer) ]_vars

C25_Witness ==
    /\ pc = "raster"
    /\ Len(drawn) = 2
    /\ OffScreen(drawn[1].triangle)
    /\ drawn[2].triangle[2].x = F(2 * Width + 2)
    /\ LoopPixels(BoundingBox(drawn[2].triangle)) = Pixels
    /\ \A i \in 1..(Width * Height) : buffer[i] = 2


----------------------------------------------------------------------------
(* C23: the matrices a render call is given *)

\* C23: whatever the update callback does, in every render issued by
\* Scene::run or draw_and_export_frame the camera's combined_matrix is
\* focal_matrix times the view matrix of the camera's position and rotation
\* at the moment of the render.
C23_NoStaleRender ==
    (pc \in {"loop", "done"} /\ rendered) => ~Stale


----------------------------------------------------------------------------
(* C26: the end of an iteration of Scene::run *)

\* C26: at the end of every iteration of Scene::run the camera's modified
\* flag is false, also when the state change alone called for the render, and
\* last_state is the state of the frame rendered last: the state just rendered
\* when the iteration rendered, and what it was before when it did not.
C26_IterationConsumesFlag ==
    [][ (pc = "compare" /\ pc' = "loop") =>
            /\ ~modified'
            /\ camera_changed' = modified
            /\ rendered' => last_state' = Some(new_state)
            /\ (~rendered') => last_state' = last_state ]_vars

\* an iteration that rendered for a changed state while the flag was set too
C26_Witness ==
    /\ pc = "loop"
    /\ rendered
    /\ camera_changed
    /\ ~modified
    /\ last_state = Some(1)
    /\ new_state = 1
    /\ presented = buffer


----------------------------------------------------------------------------
(* C27: the screen buffer before its first clear *)

\* C27: a new ScreenBuffer has every depth at 0, so until clear() has been
\* called a fill writes no pixel for any triangle of non-negative depths; every
\* frame Scene renders, in run and in draw_and_export_frame, is rendered into
\* buffers just cleared.
C27_NoFillBeforeClear ==
    /\ []((Len(z_buffer) > 0 /\ ~cleared) =>
              /\ \A i \in 1..Len(z_buffer) : z_buffer[i] = F(0)
              /\ \A t \in TriangleInputs :
                     fill_projected_triangle(CurrentScreenBuffer, t, 1) = CurrentScreenBuffer)
    /\ [][ rendered' =>
              /\ cleared'
              /\ \E sb \in {FillAll(clear(CurrentScreenBuffer, BackgroundColor),
                                    drawn', Len(drawn'))} :
                    buffer' = sb.buffer /\ z_buffer' = sb.z_buffer ]_vars

C27_Witness ==
    /\ pc = "callback"
    /\ ~cleared
    /\ z_buffer = [i \in 1..(Width * Height) |-> F(0)]
    /\ fill_projected_triangle(CurrentScreenBuffer,
                               << Vertex(0, 0, 1), Vertex(2 * Width, 0, 1),
                                  Vertex(0, 2 * Height, 1) >>, 1) = CurrentScreenBuffer


----------------------------------------------------------------------------
(* C28: the bounding box of compute_extremes *)

FiniteMesh(vertices) ==
    \A n \in 1..Len(vertices) : \A i \in 1..3 : IsFinite(vertices[n][i])

\* the vertices reach to both sides of the origin along axis i, or touch it
StraddlesOrigin(vertices, i) ==
    /\ FLe(LeastOf(AxisCoords(vertices, i)), F(0))
    /\ FLe(F(0), GreatestOf(AxisCoords(vertices, i)))

\* C28: compute_extremes returns, for each axis, min(0, smallest vertex
\* coordinate) and max(0, largest vertex coordinate): the box contains the
\* origin, the size is at least the extent of the vertices on every axis and
\* equals it only when the vertices straddle or touch the origin on that axis,
\* the size of an empty vertex list is (0, 0, 0), and Object::new stores this
\* size.
C28_ExtremesContainOrigin ==
    (object.t = "object" /\ FiniteMesh(object.v.vertices)) =>
        LET vertices == object.v.vertices
            extremes == compute_extremes(vertices)
            size == compute_size(vertices)
        IN  /\ \A i \in 1..3 :
                  /\ extremes[1][i] = LeastOf(AxisCoords(vertices, i) \cup {F(0)})
                  /\ extremes[2][i] = GreatestOf(AxisCoords(vertices, i) \cup {F(0)})
                  /\ FLe(extremes[1][i], F(0))
                  /\ FLe(F(0), extremes[2][i])
                  /\ (Len(vertices) > 0) =>
                        /\ FLe(Extent(vertices, i), size[i])
                        /\ FLe(Extent(vertices, i), object.v.size[i])
                        /\ FEq(size[i], Extent(vertices, i)) => StraddlesOrigin(vertices, i)
            /\ compute_center(vertices) = midpoint(extremes[1], extremes[2])
            /\ (Len(vertices) = 0) => size = Point3Of(0, 0, 0)
            /\ (op = "new") => object.v.size = size

\* a mesh away from the origin has been built: its size is larger than its extent
C28_Witness ==
    /\ op = "new"
    /\ object.t = "object"
    /\ object.v.vertices = << Point3Of(2, 1, 1), Point3Of(3, 1, 1), Point3Of(2, 2, 1) >>
    /\ object.v.size = Point3Of(3, 2, 1)
    /\ compute_extremes(object.v.vertices) = << Point3Of(0, 0, 0), Point3Of(3, 2, 1) >>


----------------------------------------------------------------------------
(* C29: the loops of draw_line *)

GreaterInt(a, b) == IF a > b THEN a ELSE b

\* the larger of |dx| and |dy| between the endpoints the line is drawn between
MajorDelta(r) ==
    GreaterInt(AbsInt(r.p2[1] - r.p1[1]), AbsInt(r.p2[2] - r.p1[2]))

\* C29: draw_line terminates: the for loop runs exactly max(|dx|,|dy|) times,
\* the while loop at most once within each of them, consecutive plotted pixels
\* differ by at most 1 in each coordinate, at most max(|dx|,|dy|) + 1 pixels
\* are plotted, the first is p1 and the last is p2; a line that is rejected
\* plots nothing.
C29_LineLoopsAreBounded ==
    (op = "draw_line") =>
        LET r == result.v
        IN  IF r.drawn
            THEN /\ r.outer = MajorDelta(r)
                 /\ r.inner_most <= 1
                 /\ Len(r.plotted) >= 1
                 /\ Len(r.plotted) <= MajorDelta(r) + 1
                 /\ r.plotted[1] = r.p1
                 /\ r.plotted[Len(r.plotted)] = r.p2
                 /\ \A k \in 1..(Len(r.plotted) - 1) :
                       /\ AbsInt(r.plotted[k + 1][1] - r.plotted[k][1]) <= 1
                       /\ AbsInt(r.plotted[k + 1][2] - r.plotted[k][2]) <= 1
            ELSE r.outer = 0 /\ r.plotted = << >>

\* a steep line across the 7 x 5 screen: four iterations, five pixels
C29_Witness ==
    /\ op = "draw_line"
    /\ operand.v.p1 = <<0, 0>>
    /\ operand.v.p2 = <<1, 4>>
    /\ result.v.drawn
    /\ result.v.outer = 4
    /\ result.v.inner_most = 1
    /\ Len(result.v.plotted) = 5


----------------------------------------------------------------------------
(* C30: what each camera method writes *)

\* C30: move_to changes only position, set_rotation only rotation and
\* point_to only view_matrix; none of the three changes combined_matrix or the
\* modified flag; no operation changes focal_matrix after Camera::new; and
\* update() writes view_matrix from position and rotation alone, whatever an
\* earlier point_to had put there.
C30_SettersWriteOneField ==
    /\ [][ /\ (last_call' = "move_to") =>
                  /\ rotation' = rotation
                  /\ view_matrix' = view_matrix
                  /\ combined_matrix' = combined_matrix
                  /\ modified' = modified
           /\ (last_call' = "set_rotation") =>
                  /\ position' = position
                  /\ view_matrix' = view_matrix
                  /\ combined_matrix' = combined_matrix
                  /\ modified' = modified
           /\ (last_call' = "point_to") =>
                  /\ position' = position
                  /\ rotation' = rotation
                  /\ combined_matrix' = combined_matrix
                  /\ modified' = modified
           /\ (last_call' = "update") =>
                  /\ position' = position
                  /\ rotation' = rotation
           /\ focal_matrix' = focal_matrix ]_vars
    /\ []((last_call = "update") =>
              view_matrix = rotation_view_matrix(position, rotation))

\* pointed at a target: the view matrix is not the one update() will write, and
\* the combined matrix is still the one of the view before
C30_Witness ==
    /\ last_call = "point_to"
    /\ view_matrix # rotation_view_matrix(position, rotation)
    /\ combined_matrix # Mul(focal_matrix, view_matrix)
    /\ ~modified

====
